---------------------------- MODULE Spec2Model ----------------------------
(***************************************************************************)
(* Model of the ECCAIRS gateway: the access-token manager (e2Client.js),   *)
(* the request handlers that call the registry (server.js) and the         *)
(* attribute payload compiler (eccairsPayload.js).                         *)
(***************************************************************************)
EXTENDS Integers, Sequences, FiniteSets, TLC

(***************************************************************************)
(* Bounds of the model.                                                    *)
(***************************************************************************)
\* number of clock steps
MaxTicks == 2
\* number of tokens the identity provider issues
MaxIssued == 2
\* number of calls one request slot makes one after the other
MaxRounds == 2

(***************************************************************************)
(* Values shared by both parts.                                            *)
(***************************************************************************)
\* JavaScript null / undefined, and Map.get of an absent key
None == [none |-> TRUE]
\* a JavaScript string value
S(x) == [str |-> x]
\* a JavaScript number value
N(x) == [num |-> x]

Range(s) == {s[i] : i \in DOMAIN s}

(***************************************************************************)
(* Part 1: the access-token manager and the registry calls.                *)
(***************************************************************************)
VARIABLES now, tokenCache, calls, issued, exportStatus, env

tokenVars == <<now, tokenCache, calls, issued, exportStatus, env>>

\* state of one run of buildE2Payload (Part 2): the position of the run, its
\* arguments, the legacy row it loaded, the loaded selections, the catalog
\* queries still to issue, the keys found so far, the queries the catalog
\* has seen and what the run gave back to its caller
VARIABLES bpc, buildArgs, wide, loaded, byCode, validSet, queries, outcome,
          store, outcomes

payVars == <<bpc, buildArgs, wide, loaded, byCode, validSet, queries, outcome,
             store, outcomes>>

vars == <<tokenVars, payVars>>

\* const skewMs = 60_000
skewMs == 60000
\* one clock step: half the skew, so that instants inside the skew window exist
TickMs == skewMs \div 2

\* Date.now() is a number; an expiry computed from a missing expires_in is NaN
Num(x) == [nan |-> FALSE, ms |-> x]
NaN == [nan |-> TRUE, ms |-> 0]
\* the JavaScript comparison a < b: false as soon as one side is NaN
JsLt(a, b) == ~a.nan /\ ~b.nan /\ a.ms < b.ms
\* the expiry without the skew
JsExpiry_NoSkew(t, expires_in, skew) ==
    IF expires_in = None THEN NaN ELSE Num(t + expires_in.num * 1000)

\* a + b * 1000 - c, NaN when b is undefined
JsExpiry(t, expires_in, skew) ==
    IF expires_in = None THEN NaN ELSE Num(t + expires_in.num * 1000 - skew)

\* process.env.E2_BASE_URL / E2_CLIENT_ID / E2_CLIENT_SECRET, when they are set
GLOBAL_E2 == [e2_client_id |-> S("envClient"), e2_base_url |-> S("envUrl")]
\* the same variables when the process was started without them
GLOBAL_UNSET == [e2_client_id |-> None, e2_base_url |-> None]

\* the integration objects a caller passes (null = shared credentials);
\* the same company has one integration row per environment
Integrations ==
    { None,
      [company_id |-> "c1", e2_client_id |-> S("sandboxClient"), e2_base_url |-> S("sandboxUrl")],
      [company_id |-> "c1", e2_client_id |-> S("prodClient"), e2_base_url |-> S("prodUrl")] }

CacheKeys == {"global", "c1"}

\* integration?.e2_client_id || GLOBAL, integration?.e2_base_url || GLOBAL
Effective(integration, global) ==
    IF integration = None THEN global
    ELSE [e2_client_id |-> IF integration.e2_client_id = None
                              THEN global.e2_client_id ELSE integration.e2_client_id,
          e2_base_url  |-> IF integration.e2_base_url = None
                              THEN global.e2_base_url ELSE integration.e2_base_url]

\* integration?.company_id || "global"
cacheKey(integration) ==
    IF integration = None THEN "global" ELSE integration.company_id

\* the ordered list of (endpoint path, mode) pairs
attempts ==
    << [path |-> "/idp/oauth2/token", mode |-> "body"],
       [path |-> "/idp/oauth2/token", mode |-> "basic"] >>

\* a bearer token, numbered in the order the identity provider issued it
Tok(n) == [id |-> n]

\* response bodies of the token endpoint, by what the code tests of them:
\* isJson = JSON.parse accepts the text, marked = the text starts with
\* "<!DOCTYPE" or "<html" or includes "<html", html = the text is an HTML page
JsonBody      == [isJson |-> TRUE,  marked |-> FALSE, html |-> FALSE]
JsonWithTag   == [isJson |-> TRUE,  marked |-> TRUE,  html |-> FALSE]
HtmlBody      == [isJson |-> FALSE, marked |-> TRUE,  html |-> TRUE]
\* an HTML page in upper case ("<HTML>", "<!doctype html><HTML>")
HtmlUnmarked  == [isJson |-> FALSE, marked |-> FALSE, html |-> TRUE]
PlainBody     == [isJson |-> FALSE, marked |-> FALSE, html |-> FALSE]

\* server-declared lifetimes, in seconds
Lifetimes == {120}

NoData == [access_token |-> None, expires_in |-> None]

\* what the identity provider may answer to one token request; n numbers the
\* token it issues with a well-formed answer
IdpResponses(n) ==
    { [ok |-> TRUE, body |-> JsonBody, issues |-> (tk # None),
       data |-> [access_token |-> tk, expires_in |-> ex]] :
         tk \in {Tok(n), None}, ex \in {N(l) : l \in Lifetimes} \cup {None} }
    \cup
    { [ok |-> o, body |-> b, issues |-> FALSE, data |-> NoData] :
         o \in BOOLEAN, b \in {HtmlBody, HtmlUnmarked} }
    \cup
    { [ok |-> FALSE, body |-> JsonBody, issues |-> FALSE, data |-> NoData] }

\* statuses of the registry
Statuses == {200, 401, 500}
\* Response.ok
IsOk(status) == status >= 200 /\ status <= 299

\* requestToken that looks for HTML only in refusals and returns the body
\* of an accepted response as it is
requestToken_HtmlOnlyOnError(res) ==
    IF ~res.ok THEN [threw |-> TRUE, reason |-> "status"]
    ELSE [threw |-> FALSE, data |-> res.data]

\* requestToken after the response arrived: the parsed body, or the error thrown
requestToken(res) ==
    IF res.body.marked THEN [threw |-> TRUE, reason |-> "returned HTML"]
    ELSE IF ~res.ok THEN [threw |-> TRUE, reason |-> "status"]
    ELSE IF ~res.body.isJson THEN [threw |-> TRUE, reason |-> "JSON.parse"]
    ELSE [threw |-> FALSE, data |-> res.data]

\* the request slots: two requests may be in progress at the same time
Procs == {1, 2}

\* a request slot with no call in progress
IdleCall(round) ==
    [ pc |-> "idle", op |-> "none", integration |-> None, retry |-> FALSE,
      attempt |-> 0, resp |-> None, errors |-> <<>>, token |-> None,
      fetches |-> <<>>, result |-> None, look |-> None, reqs |-> 0,
      round |-> round ]

\* the handlers that send an occurrence to the registry
HandlerOps == {"create", "edit", "submit"}

\* the columns of an eccairs_exports row the handlers write; no row yet
NoExport == [status |-> "none", last_error |-> None, response |-> None]

\* the parsed body of the registry's answer (readE2Response), by its status
ParsedBody(status) == [answered |-> status]

\* errorDetails || message || error || `E2 <op> failed (<status>)`
errMsg(op, status) == S(<<"E2", op, "failed", status>>)

TokenInit ==
    /\ now = 0
    /\ tokenCache = [k \in CacheKeys |-> None]
    /\ calls = [p \in Procs |-> IdleCall(1)]
    /\ issued = 0
    /\ exportStatus = [p \in Procs |-> NoExport]
    /\ env \in {GLOBAL_E2, GLOBAL_UNSET}

\* no run of buildE2Payload has been started
PayInit ==
    /\ bpc = "idle"
    /\ buildArgs = None
    /\ wide = None
    /\ loaded = None
    /\ byCode = <<>>
    /\ validSet = {}
    /\ queries = <<>>
    /\ outcome = None
    /\ store = [generic |-> None, wide |-> None, integration |-> None]
    /\ outcomes = <<>>

Init == TokenInit /\ PayInit

\* the caller's continuation once getE2AccessToken returned tok: a plain
\* getE2AccessToken call is complete, e2Fetch and the handlers send the
\* registry request with that token
AfterToken(c, tok) ==
    IF c.op = "getToken"
    THEN [c EXCEPT !.pc = "done", !.result = [kind |-> "returned", value |-> tok]]
    ELSE [c EXCEPT !.pc = "awaitFetch", !.token = tok]

\* the caller's continuation once getE2AccessToken threw err: getE2AccessToken
\* and e2Fetch propagate it, a handler's catch block answers 500
AfterTokenError(c, err) ==
    IF c.op \in {"getToken", "e2Fetch"}
    THEN [c EXCEPT !.pc = "done", !.result = [kind |-> "thrown", error |-> err]]
    ELSE [c EXCEPT !.pc = "done",
                   !.result = [kind |-> "response", status |-> 500, error |-> err]]

\* now <= cached.expiresAt
Fresh_Inclusive(cached, t) ==
    ~cached.expiresAt.nan /\ t <= cached.expiresAt.ms

\* now < cached.expiresAt
Fresh(cached, t) == JsLt(Num(t), cached.expiresAt)

\* getE2AccessToken up to its first await: credentials, cache lookup, and on a
\* miss the first token request
getE2AccessTokenBegin(c, cache, t, global) ==
    LET eff    == Effective(c.integration, global)
        cached == cache[cacheKey(c.integration)]
        hit    == cached # None /\ Fresh(cached, t)
        look   == IF cached = None THEN None
                  ELSE [at |-> t, entry |-> cached, hit |-> hit]
        c1     == [c EXCEPT !.reqs = 0, !.errors = <<>>, !.look = look]
    IN  IF eff.e2_client_id = None \/ eff.e2_base_url = None
        THEN AfterTokenError(c, [message |-> <<[attempt |-> 0,
                                               reason |-> "not configured"]>>])
        ELSE IF hit
        THEN AfterToken(c1, cached.token)
        ELSE [c1 EXCEPT !.pc = "awaitToken", !.attempt = 1, !.reqs = 1]

\* ---- operations -------------------------------------------------------

\* a slot takes a new call when it has none, or when its call is complete
CanStart(c) == c.pc = "idle" \/ (c.pc = "done" /\ c.round < MaxRounds)
NewCall(c) == IF c.pc = "idle" THEN c ELSE IdleCall(c.round + 1)

\* a caller invokes getE2AccessToken(integration)
StartGetToken(p, integration) ==
    /\ CanStart(calls[p])
    /\ calls' = [calls EXCEPT ![p] =
          getE2AccessTokenBegin([NewCall(@) EXCEPT !.op = "getToken",
                                                   !.integration = integration],
                                tokenCache, now, env)]
    /\ UNCHANGED <<now, tokenCache, issued, exportStatus, env, payVars>>

\* a caller invokes e2Fetch(path, init, integration)
StartE2Fetch(p, integration) ==
    /\ CanStart(calls[p])
    /\ calls' = [calls EXCEPT ![p] =
          getE2AccessTokenBegin([NewCall(@) EXCEPT !.op = "e2Fetch",
                                                   !.integration = integration],
                                tokenCache, now, env)]
    /\ UNCHANGED <<now, tokenCache, issued, exportStatus, env, payVars>>

\* POST /api/eccairs/drafts (op = "create"), POST /api/eccairs/drafts/update
\* (op = "edit") and POST /api/eccairs/submit (op = "submit") up to the token
\* request: the checks that answer before the export row is touched, the row
\* set to "pending" with last_error null, buildE2Payload (create and edit
\* only), and getE2AccessToken(integration)
StartHandler(p, op, integration, early, built) ==
    /\ CanStart(calls[p])
    /\ integration # None
    /\ op = "submit" => built
    /\ LET c == [NewCall(calls[p]) EXCEPT !.op = op, !.integration = integration]
       IN  IF early
           THEN /\ calls' = [calls EXCEPT ![p] =
                      [c EXCEPT !.pc = "done",
                                !.result = [kind |-> "response", status |-> 400,
                                            error |-> None]]]
                /\ UNCHANGED exportStatus
           ELSE /\ exportStatus' = [exportStatus EXCEPT ![p] =
                      [@ EXCEPT !.status = "pending", !.last_error = None]]
                /\ calls' = [calls EXCEPT ![p] =
                      IF built
                      THEN getE2AccessTokenBegin(c, tokenCache, now, env)
                      ELSE AfterTokenError(c, [message |-> <<[attempt |-> 0,
                                                   reason |-> "buildE2Payload"]>>])]
    /\ UNCHANGED <<now, tokenCache, issued, env, payVars>>

\* the identity provider answers the token request of p
IdpRespond(p, res) ==
    /\ calls[p].pc = "awaitToken"
    /\ res \in IdpResponses(issued + 1)
    /\ res.issues => issued < MaxIssued
    /\ calls' = [calls EXCEPT ![p] = [@ EXCEPT !.pc = "tokenResp", !.resp = res]]
    /\ issued' = IF res.issues THEN issued + 1 ELSE issued
    /\ UNCHANGED <<now, tokenCache, exportStatus, env, payVars>>

\* the error getE2AccessToken throws when the loop ends: throw lastErr
ExhaustedError(errors) == [message |-> <<errors[Len(errors)]>>]

\* getE2AccessToken resumes with the response of the attempt in flight: on
\* success the cache entry is written and the token returned, on failure the
\* error is noted and the next pair is tried, or the last error thrown
TokenResponse(p) ==
    /\ calls[p].pc = "tokenResp"
    /\ LET c    == calls[p]
           r    == requestToken(c.resp)
           key  == cacheKey(c.integration)
           entry == [token |-> r.data.access_token,
                     expiresAt |-> JsExpiry(now, r.data.expires_in, skewMs)]
           failed == Append(c.errors, [attempt |-> c.attempt, reason |-> r.reason])
       IN  IF ~r.threw
           THEN /\ tokenCache' = [tokenCache EXCEPT ![key] = entry]
                /\ calls' = [calls EXCEPT ![p] =
                      AfterToken([c EXCEPT !.resp = None], r.data.access_token)]
           ELSE /\ UNCHANGED tokenCache
                /\ calls' = [calls EXCEPT ![p] =
                      LET c1 == [c EXCEPT !.resp = None, !.errors = failed]
                      IN  IF c.attempt < Len(attempts)
                          THEN [c1 EXCEPT !.pc = "awaitToken", !.attempt = c.attempt + 1,
                                          !.reqs = @ + 1]
                          ELSE AfterTokenError(c1, ExhaustedError(failed))]
    /\ UNCHANGED <<now, issued, exportStatus, env, payVars>>

\* the final status when the answer's status is not looked at
RowStatus_IgnoringFailure(op, status) ==
    IF op = "create" THEN "draft_created"
    ELSE IF op = "edit" THEN "draft_updated" ELSE "submitted"

\* the final status of the export row after the registry answered
RowStatus(op, status) ==
    IF ~IsOk(status) THEN "failed"
    ELSE IF op = "create" THEN "draft_created"
    ELSE IF op = "edit" THEN "draft_updated" ELSE "submitted"

\* the update of the export row that records the registry's answer
RowUpdate(op, status) ==
    [status     |-> RowStatus(op, status),
     last_error |-> IF IsOk(status) THEN None ELSE errMsg(op, status),
     response   |-> ParsedBody(status)]

\* what a handler answers its caller once the registry answered: the
\* registry's status with the error message, or the success body
HandlerAnswer(op, status) ==
    [kind |-> "response", status |-> status,
     error |-> IF IsOk(status) THEN None ELSE errMsg(op, status)]

\* the registry answers the request of p with `status`.  e2Fetch: a 401 to its
\* first request deletes the cache entry and calls getE2AccessToken again; any
\* other answer, and the answer to the second request, is returned.  Handlers:
\* the answer is recorded in the export row and reported.
FetchResponse(p, status) ==
    /\ calls[p].pc = "awaitFetch"
    /\ status \in Statuses
    /\ LET c   == [calls[p] EXCEPT !.fetches = Append(@, status)]
           key == cacheKey(c.integration)
           cleared == [tokenCache EXCEPT ![key] = None]
       IN  IF c.op = "e2Fetch"
           THEN IF status = 401 /\ ~c.retry
                THEN /\ tokenCache' = cleared
                     /\ calls' = [calls EXCEPT ![p] =
                           getE2AccessTokenBegin([c EXCEPT !.retry = TRUE, !.token = None],
                                                 cleared, now, env)]
                     /\ UNCHANGED exportStatus
                ELSE /\ calls' = [calls EXCEPT ![p] =
                           [c EXCEPT !.pc = "done",
                                     !.result = [kind |-> "returned", value |-> status]]]
                     /\ UNCHANGED <<tokenCache, exportStatus>>
           ELSE /\ exportStatus' = [exportStatus EXCEPT ![p] = RowUpdate(c.op, status)]
                /\ calls' = [calls EXCEPT ![p] =
                      [c EXCEPT !.pc = "done",
                                !.result = HandlerAnswer(c.op, status)]]
                /\ UNCHANGED tokenCache
    /\ UNCHANGED <<now, issued, env, payVars>>

\* time passes
Tick ==
    /\ now < MaxTicks * TickMs
    /\ now' = now + TickMs
    /\ UNCHANGED <<tokenCache, calls, issued, exportStatus, env, payVars>>

\* the integrations of company c1: its sandbox and its prod row share one key
SameKey == {i \in Integrations : i # None}

\* well-formed answers of the identity provider, and one refusal
WellFormed(n) ==
    {r \in IdpResponses(n) :
        \/ r.issues /\ r.data.expires_in # None
        \/ ~r.ok /\ r.body = HtmlBody}

\* the calls one caller makes of the token manager, one after the other:
\* getE2AccessToken and e2Fetch with every integration, every answer of the
\* identity provider and of the registry
TokenNext ==
    \/ \E i \in Integrations : StartGetToken(1, i)
    \/ \E i \in Integrations : StartE2Fetch(1, i)
    \/ \E res \in IdpResponses(issued + 1) : IdpRespond(1, res)
    \/ TokenResponse(1)
    \/ \E st \in Statuses : FetchResponse(1, st)
    \/ Tick

SpecToken == Init /\ [][TokenNext]_vars

\* the requests that send an occurrence to the registry, one after the
\* other: every handler with the integration of either environment, every
\* answer of the identity provider and of the registry
HandlerNext ==
    \/ \E op \in HandlerOps, i \in SameKey, e, b \in BOOLEAN :
          StartHandler(1, op, i, e, b)
    \/ \E res \in IdpResponses(issued + 1) : IdpRespond(1, res)
    \/ TokenResponse(1)
    \/ \E st \in Statuses : FetchResponse(1, st)
    \/ Tick

SpecHandler == Init /\ [][HandlerNext]_vars

\* two requests of the same tenant in progress at the same time
RaceNext ==
    \/ \E p \in Procs, i \in SameKey : calls[p].pc = "idle" /\ StartGetToken(p, i)
    \/ \E p \in Procs, i \in SameKey : calls[p].pc = "idle" /\ StartE2Fetch(p, i)
    \/ \E p \in Procs : \E res \in WellFormed(issued + 1) : IdpRespond(p, res)
    \/ \E p \in Procs : TokenResponse(p)
    \/ \E p \in Procs, st \in Statuses : FetchResponse(p, st)
    \/ Tick

SpecRace == Init /\ [][RaceNext]_vars

(***************************************************************************)
(* Properties of the access-token manager.                                 *)
(***************************************************************************)
Quiescent == \A p \in Procs : calls[p].pc \in {"idle", "done"}

\* the token a call handed to its caller, None when it handed none
Returned(c) ==
    IF c.op = "getToken"
    THEN IF c.result # None /\ c.result.kind = "returned" THEN c.result.value ELSE None
    ELSE c.token

\* C1: once all concurrent calls of a tenant key have completed, the cache
\* entry of the key holds the token the identity provider issued last.  (All
\* requests of SpecRace are for the key "c1", so that token is Tok(issued).)
C1_NoStaleTokenAfterRefresh ==
    (Quiescent /\ tokenCache["c1"] # None) => tokenCache["c1"].token = Tok(issued)

\* C2: a registry call answered 401 is repeated exactly once, after the cache
\* entry was removed and a token obtained, and the second answer is the one
\* the caller gets.
C2_RetryOnceOn401 ==
    \A p \in Procs :
       LET c == calls[p]
       IN  (c.pc = "done" /\ c.fetches # <<>> /\ c.fetches[1] = 401) =>
              /\ Len(c.fetches) = 2
              /\ c.result.kind \in {"returned", "response"}
              /\ IF c.result.kind = "returned"
                 THEN c.result.value = c.fetches[2]
                 ELSE c.result.status = c.fetches[2]

\* C3: when every attempt of a getE2AccessToken call failed, the error raised
\* aggregates the failures of all attempts and no token is returned.
C3_AggregatedFailure ==
    \A p \in Procs :
       LET c == calls[p]
       IN  (c.pc = "done" /\ Len(c.errors) = Len(attempts)) =>
              /\ c.result.kind \in {"thrown", "response"}
              /\ c.result.error # None
              /\ {e.attempt : e \in Range(c.result.error.message)} = DOMAIN attempts

\* the step of p is getE2AccessToken resuming with an answer
Resumes(p) == calls[p].pc = "tokenResp" /\ calls'[p] # calls[p]

\* the answer is one requestToken returns the parsed body of
Accepted(res) == res.ok /\ res.body = JsonBody

\* C4: an attempt whose response body is HTML, whatever its status, counts as
\* failed and writes nothing to the cache, and the next pair of the list is
\* tried (the call fails when it was the last pair); when an attempt after
\* the first is accepted, its token is cached and returned.
C4_HtmlAttemptSkipped ==
    [][\A p \in Procs :
          LET c == calls[p]
              d == calls'[p]
          IN  /\ (Resumes(p) /\ c.resp.body.html) =>
                    /\ tokenCache' = tokenCache
                    /\ Len(d.errors) = Len(c.errors) + 1
                    /\ d.errors[Len(d.errors)].attempt = c.attempt
                    /\ Returned(d) = None
                    /\ IF c.attempt < Len(attempts)
                       THEN d.pc = "awaitToken" /\ d.attempt = c.attempt + 1
                       ELSE d.pc = "done" /\ d.result.kind \in {"thrown", "response"}
              /\ (Resumes(p) /\ c.attempt > 1 /\ Accepted(c.resp)) =>
                    /\ tokenCache'[cacheKey(c.integration)].token = c.resp.data.access_token
                    /\ Returned(d) = c.resp.data.access_token
      ]_tokenVars

\* witness of C4: the first attempt got an HTML page, the second one a token,
\* which is returned and cached
C4_Witness ==
    \E p \in Procs :
       LET c == calls[p]
       IN  /\ c.pc = "done" /\ c.op = "getToken"
           /\ Len(c.errors) = 1 /\ c.errors[1].reason = "returned HTML"
           /\ c.result.kind = "returned" /\ c.result.value # None
           /\ tokenCache[cacheKey(c.integration)] # None
           /\ tokenCache[cacheKey(c.integration)].token = c.result.value

\* C5 as stated: the cached token is returned only when the current time is
\* not within 60 seconds of the entry's expiresAt.
C5_NotWithinSkewOfExpiresAt ==
    \A p \in Procs :
       LET l == calls[p].look
       IN  (l # None /\ l.hit) =>
              ~l.entry.expiresAt.nan /\ l.at + 60000 <= l.entry.expiresAt.ms

\* C5 as amended: the cached token is returned, without a request to the
\* identity provider, exactly when the current time is earlier than the
\* entry's expiresAt; from expiresAt on the call re-authenticates.
C5_CachedOnlyBeforeExpiresAt ==
    \A p \in Procs :
       LET c == calls[p]
           l == c.look
       IN  l # None =>
              /\ l.hit <=> (~l.entry.expiresAt.nan /\ l.at < l.entry.expiresAt.ms)
              /\ l.hit => c.reqs = 0 /\ Returned(c) = l.entry.token
              /\ ~l.hit => c.reqs >= 1

\* witness of C5: a cached token returned less than 60 seconds before expiresAt
C5_Witness ==
    \E p \in Procs :
       LET l == calls[p].look
       IN  /\ l # None /\ l.hit
           /\ l.at < l.entry.expiresAt.ms
           /\ l.at + 60000 > l.entry.expiresAt.ms

\* the attempts of a call are made one at a time, in the order of the list
InListOrder(c) ==
    /\ c.attempt = Len(c.errors) + 1
    /\ c.reqs = c.attempt
    /\ \A i \in DOMAIN c.errors : c.errors[i].attempt = i

\* C6: on a miss the pairs are tried one at a time in list order; the first
\* accepted answer ends the requests of the call and sets the cache entry to
\* (its token, time of success + declared lifetime - 60 s); a call that
\* starts for the key before that expiry makes no request at all.
C6_FirstSuccessCached ==
    /\ [](\A p \in Procs :
            calls[p].pc \in {"awaitToken", "tokenResp"} => InListOrder(calls[p]))
    /\ [][\A p \in Procs :
          LET c == calls[p]
              d == calls'[p]
              k == cacheKey(d.integration)
          IN  /\ (Resumes(p) /\ Accepted(c.resp) /\ c.resp.data.expires_in # None) =>
                    /\ tokenCache'[k] =
                          [token |-> c.resp.data.access_token,
                           expiresAt |-> Num(now + c.resp.data.expires_in.num * 1000
                                                 - 60000)]
                    /\ d.pc \notin {"awaitToken", "tokenResp"}
                    /\ d.reqs = c.reqs
                    /\ Returned(d) = c.resp.data.access_token
              /\ (/\ c.pc \in {"idle", "done"} /\ d # c
                  /\ tokenCache[k] # None
                  /\ ~tokenCache[k].expiresAt.nan
                  /\ now < tokenCache[k].expiresAt.ms) =>
                    d.reqs = 0 /\ d.pc # "awaitToken"
      ]_tokenVars

\* witness of C6: the entry written at time 0 with a declared lifetime of
\* 120 s expires at 60000, and the following call for the key returned its
\* token without a request
C6_Witness ==
    \E p \in Procs :
       LET c == calls[p]
           k == cacheKey(c.integration)
       IN  /\ c.pc = "done" /\ c.op = "getToken" /\ c.round = 2
           /\ c.look # None /\ c.look.hit /\ c.reqs = 0
           /\ c.result.kind = "returned" /\ c.result.value # None
           /\ tokenCache[k] # None /\ tokenCache[k].token = c.result.value
           /\ tokenCache[k].expiresAt.ms = 60000

(***************************************************************************)
(* Part 2: the attribute payload compiler (eccairsPayload.js).             *)
(*                                                                         *)
(* A string is the sequence of its characters.  A word whose letters the   *)
(* code never looks at one by one (a format name, a message, a mode) is    *)
(* written as one element.                                                 *)
(***************************************************************************)
\* number of rows an incident has in incident_eccairs_attributes
MaxRows == 2
\* number of times buildE2Payload is run for one incident
MaxBuilds == 2

Digits == {"0", "1", "2", "3", "4", "5", "6", "7", "8", "9"}

DigitValue(ch) ==
    CASE ch = "0" -> 0 [] ch = "1" -> 1 [] ch = "2" -> 2 [] ch = "3" -> 3
      [] ch = "4" -> 4 [] ch = "5" -> 5 [] ch = "6" -> 6 [] ch = "7" -> 7
      [] ch = "8" -> 8 [] ch = "9" -> 9

DigitChar(d) ==
    CASE d = 0 -> "0" [] d = 1 -> "1" [] d = 2 -> "2" [] d = 3 -> "3"
      [] d = 4 -> "4" [] d = 5 -> "5" [] d = 6 -> "6" [] d = 7 -> "7"
      [] d = 8 -> "8" [] d = 9 -> "9"

RECURSIVE trimStart(_)
trimStart(s) == IF s # <<>> /\ s[1] = " " THEN trimStart(Tail(s)) ELSE s

RECURSIVE trimEnd(_)
trimEnd(s) ==
    IF s # <<>> /\ s[Len(s)] = " " THEN trimEnd(SubSeq(s, 1, Len(s) - 1)) ELSE s

\* String.prototype.trim
trim(s) == trimEnd(trimStart(s))

\* /^\d+$/.test(s)
IsDigits(s) == s # <<>> /\ \A i \in DOMAIN s : s[i] \in Digits

RECURSIVE DecimalValue(_)
DecimalValue(s) ==
    IF s = <<>> THEN 0
    ELSE 10 * DecimalValue(SubSeq(s, 1, Len(s) - 1)) + DigitValue(s[Len(s)])

\* a number with decimals: its whole part and the digits after the point,
\* without the zeros at their end
Decimal(whole, frac) == [num |-> whole, frac |-> frac]

RECURSIVE dropZeros(_)
dropZeros(s) ==
    IF s # <<>> /\ s[Len(s)] = "0" THEN dropZeros(SubSeq(s, 1, Len(s) - 1)) ELSE s

\* the value of the literal digits "." digits, one of the two runs of
\* digits possibly empty
PointValue(t) ==
    LET i == CHOOSE k \in DOMAIN t : t[k] = "."
        whole == SubSeq(t, 1, i - 1)
        frac == SubSeq(t, i + 1, Len(t))
    IN  IF /\ whole = <<>> \/ IsDigits(whole)
           /\ frac = <<>> \/ IsDigits(frac)
           /\ whole # <<>> \/ frac # <<>>
        THEN IF dropZeros(frac) = <<>> THEN N(DecimalValue(whole))
             ELSE Decimal(DecimalValue(whole), dropZeros(frac))
        ELSE NaN

\* Number(v) of null or of a string made of digits, points, blanks and the
\* letters a, v, l: the blanks around it are ignored, the empty string is 0,
\* a run of digits is its value, a decimal literal is a number that need
\* not be an integer, anything else is NaN
Number(v) ==
    IF v = None THEN N(0)
    ELSE LET t == trim(v.str)
         IN  IF t = <<>> THEN N(0)
             ELSE IF IsDigits(t) THEN N(DecimalValue(t))
             ELSE IF \E k \in DOMAIN t : t[k] = "." THEN PointValue(t)
             ELSE NaN

\* String(n) of a non-negative integer
RECURSIVE String(_)
String(n) ==
    IF n < 10 THEN <<DigitChar(n)>>
    ELSE Append(String(n \div 10), DigitChar(n % 10))

\* a || b
Or(a, b) == IF a = None THEN b ELSE a

\* a code reader that knows the prefix in capitals only
toAttributeCode_CapitalsOnly(codeOrVlKey) ==
    IF codeOrVlKey = None THEN None
    ELSE LET s == trim(codeOrVlKey.str)
         IN  IF s = <<>> THEN None
             ELSE IF IsDigits(s) THEN S(s)
             ELSE IF /\ Len(s) >= 3
                     /\ s[1] = "V" /\ s[2] = "L"
                     /\ IsDigits(SubSeq(s, 3, Len(s)))
                  THEN S(SubSeq(s, 3, Len(s)))
                  ELSE None

toAttributeCode(codeOrVlKey) ==
    IF codeOrVlKey = None THEN None
    ELSE LET s == trim(codeOrVlKey.str)
         IN  IF s = <<>> THEN None
             ELSE IF IsDigits(s) THEN S(s)
             ELSE IF /\ Len(s) >= 3
                     /\ s[1] \in {"v", "V"}
                     /\ s[2] \in {"l", "L"}
                     /\ IsDigits(SubSeq(s, 3, Len(s)))
                  THEN S(SubSeq(s, 3, Len(s)))
                  ELSE None

ensureString(v) ==
    IF v = None THEN None
    ELSE LET s == trim(v.str) IN IF s = <<>> THEN None ELSE S(s)

asInt(v) ==
    LET s == ensureString(v)
    IN  IF s = None THEN None
        ELSE LET n == Number(s) IN IF n = NaN THEN None ELSE n

Zeros(n) == [i \in 1..n |-> "0"]

\* String.prototype.padEnd(width, "0") in the place of padStart
padStart_AtEnd(s, width) == IF Len(s) >= width THEN s ELSE s \o Zeros(width - Len(s))

\* String.prototype.padStart(width, "0")
padStart(s, width) == IF Len(s) >= width THEN s ELSE Zeros(width - Len(s)) \o s

\* String.prototype.slice(0, end)
slice(s, end) == IF Len(s) <= end THEN s ELSE SubSeq(s, 1, end)

\* an identifier that counts the compilations made before
generateEntityId_Counted(suffix) ==
    slice(<<"I", "D">> \o padStart(suffix \o Zeros(Len(outcomes)), 32), 34)

generateEntityId(suffix) == slice(<<"I", "D">> \o padStart(suffix, 32), 34)

\* the names of the formats
value_list_int_array == <<"value_list_int_array">>
content_object_array == <<"content_object_array">>
text_content_array == <<"text_content_array">>
raw_json == <<"raw_json">>
local_date == <<"local_date">>
date_array == <<"date_array">>
string_array == <<"string_array">>
time_array == <<"time_array">>

\* the taxonomy that is compiled
Taxonomy24 == <<"2", "4">>

\* the converted value of a selection; every shape has its own field name:
\* [n], [{content: [n]}], [{text: t}], [t], and a raw JSON value as stored;
\* n is the number as parsed
IntArray(n) == [ints |-> <<n>>]
ContentArray(n) == [content |-> <<n>>]
TextArray(t) == [text |-> t.str]
StringArray(t) == [strs |-> <<t.str>>]

\* a conversion whose fallback tries the value id before the raw value
selectionToE2Value_ValueIdFirst(sel) ==
    IF sel.format = raw_json THEN sel.raw
    ELSE IF sel.format = content_object_array
    THEN LET n == asInt(sel.valueId) IN IF n = None THEN None ELSE ContentArray(n)
    ELSE IF sel.format = text_content_array
    THEN IF sel.text = None THEN None ELSE TextArray(sel.text)
    ELSE IF sel.format = value_list_int_array
    THEN LET n == asInt(sel.valueId) IN IF n = None THEN None ELSE IntArray(n)
    ELSE IF sel.format \in {local_date, date_array, string_array, time_array}
    THEN IF sel.text = None THEN None ELSE StringArray(sel.text)
    ELSE LET n == asInt(sel.valueId)
         IN  IF n # None THEN IntArray(n) ELSE sel.raw

selectionToE2Value(sel) ==
    IF sel.format = raw_json THEN sel.raw
    ELSE IF sel.format = content_object_array
    THEN LET n == asInt(sel.valueId) IN IF n = None THEN None ELSE ContentArray(n)
    ELSE IF sel.format = text_content_array
    THEN IF sel.text = None THEN None ELSE TextArray(sel.text)
    ELSE IF sel.format = value_list_int_array
    THEN LET n == asInt(sel.valueId) IN IF n = None THEN None ELSE IntArray(n)
    ELSE IF sel.format \in {local_date, date_array, string_array, time_array}
    THEN IF sel.text = None THEN None ELSE StringArray(sel.text)
    ELSE IF sel.raw # None THEN sel.raw
    ELSE LET n == asInt(sel.valueId) IN IF n = None THEN None ELSE IntArray(n)

(***************************************************************************)
(* The stored data the compiler reads.                                     *)
(***************************************************************************)
\* a row of incident_eccairs_attributes
Row(code, value, taxonomy, format, raw, text, path) ==
    [ attribute_code |-> code, value_id |-> value, taxonomy_code |-> taxonomy,
      format |-> format, payload_json |-> raw, text_value |-> text,
      entity_path |-> path ]

\* a stored JSON value, and the stored values JavaScript takes for false
Json(name) == [json |-> name]
FalsyJson == {Json("0"), Json("false"), Json("\"\"")}

\* a stored JSON array and a stored single JSON object
ArrayJson == Json("[{\"unit\":\"m\",\"content\":\"100\"}]")
ObjectJson == Json("{\"unit\":\"m\",\"content\":\"100\"}")

\* payload_json || null
OrNull(v) == IF v \in FalsyJson THEN None ELSE v

\* the rows an incident can have: value-list rows in and out of the
\* catalog, with and without an entity path, rows of another taxonomy,
\* rows without a value, rows of the other formats, two rows of the same
\* code and path with different values, a row without a code
AttributeRows ==
    { Row(S(<<"4", "3", "1">>), S(<<"3", "0", "0">>), None, None, None, None, None),
      Row(S(<<"4", "3", "1">>), S(<<"9", "9", "9">>), S(Taxonomy24),
          S(value_list_int_array), None, None, None),
      Row(S(<<"V", "L", "3", "2">>), S(<<" ", "4", " ">>), None, None, None, None,
          S(<<"4">>)),
      Row(S(<<"3", "2">>), S(<<"7", "7">>), None, None, None, None, S(<<"4">>)),
      Row(S(<<"3", "2">>), S(<<"5">>), None, S(value_list_int_array), None, None,
          S(<<"4">>)),
      Row(S(<<"3", "9", "0">>), None, S(Taxonomy24), S(text_content_array), None,
          S(<<"narrative">>), S(<<"4">>)),
      Row(S(<<"3", "9", "0">>), None, S(Taxonomy24), S(text_content_array), None,
          S(<<"second narrative">>), S(<<"4">>)),
      Row(S(<<"4", "3", "1">>), S(<<"3", "0", "0">>), S(<<"2", "5">>), None, None,
          None, None),
      Row(S(<<"4", "5", "3">>), None, None, S(value_list_int_array), None, None,
          None),
      Row(S(<<"1", "0", "7", "2">>), S(<<"a">>), None, S(content_object_array),
          None, None, None),
      Row(S(<<"1", "0", "8", "7">>), None, None, S(raw_json), Json("override"),
          None, None),
      Row(S(<<"4", "3", "3">>), None, None, S(<<" ", "local_date">>), None,
          S(<<"2024-01-31">>), S(<<"1", "4">>)),
      Row(S(<<"a">>), S(<<"1">>), None, None, None, None, None) }

RECURSIVE SeqsUpTo(_, _)
SeqsUpTo(set, n) ==
    IF n = 0 THEN {<<>>}
    ELSE LET shorter == SeqsUpTo(set, n - 1)
         IN  shorter \cup {Append(s, x) : s \in shorter, x \in set}

\* length of the attribute code and of the value id of a stored row
MaxLen == 4

\* the attribute codes a row can hold: null and every string up to MaxLen of
\* digits, the letters of "VL" in either case, a blank and another letter
CodeInputs ==
    {None} \cup {S(c) : c \in SeqsUpTo({"V", "l", "3", "2", " ", "a"}, MaxLen)}

\* the value ids a row can hold: null and every string up to MaxLen of
\* digits, points, blanks and a letter
ValueInputs ==
    {None} \cup {S(c) : c \in SeqsUpTo({"1", "0", ".", " ", "a"}, MaxLen)}

\* the formats a row can declare: those of the enumeration and three names
\* the conversion does not test for
Formats ==
    {value_list_int_array, content_object_array, text_content_array, raw_json,
     local_date, date_array, string_array, time_array}
FormatInputs ==
    Formats \cup {<<"other_format">>, <<"VALUE_LIST_INT_ARRAY">>, <<"object_array">>}

\* the rows of an incident with a single row: a value-list row of entity
\* path 4 for every code, a content row of code 1072 for every value id, a
\* raw_json row for every stored payload, a row of an unknown format for
\* every value id, and a row of code 32 for every format with and without
\* value id, payload and text
InputRows ==
    {Row(c, S(<<"5">>), None, None, None, None, S(<<"4">>)) : c \in CodeInputs}
    \cup {Row(S(<<"1", "0", "7", "2">>), v, None, S(content_object_array), None,
              None, None) : v \in ValueInputs}
    \cup {Row(S(<<"1", "0", "8", "7">>), None, None, S(raw_json), j, None, None) :
              j \in FalsyJson \cup {None, Json("override")}}
    \cup {Row(S(<<"4", "4", "0">>), v, None, S(<<"other_format">>), None, None, None) :
              v \in ValueInputs}
    \cup {Row(S(<<"3", "2">>), v, None, S(f), j, t, None) :
              v \in {None, S(<<"5">>), S(<<"a">>)},
              f \in FormatInputs,
              j \in {None, Json("0"), Json("override"), ArrayJson, ObjectJson},
              t \in {None, S(<<"2024-01-31">>)}}

\* an entity path of 32 characters followed by `rest`
LongPath(rest) == [i \in 1..32 |-> "7"] \o rest

\* the entity paths a row can hold: every non-empty string up to MaxLen of
\* the digits 0 and 4, a path of 32 characters and two paths of 33
\* characters
PathInputs ==
    (SeqsUpTo({"0", "4"}, MaxLen) \ {<<>>})
    \cup {LongPath(<<>>), LongPath(<<"1">>), LongPath(<<"2">>)}

\* a free-text row of an entity path
PathRow(path) ==
    Row(S(<<"3", "9", "0">>), None, None, S(text_content_array), None,
        S(<<"narrative">>), S(path))

\* the row lists of the incidents of SpecRow: every single row of
\* InputRows, and every two rows of entity paths
InputLists ==
    {<<row>> : row \in InputRows}
    \cup {<<PathRow(p), PathRow(q)>> : p, q \in PathInputs}

\* the rows of eccairs.value_list_items
Catalog ==
    { [value_list_key |-> <<"V", "L", "4", "3", "1">>, value_id |-> <<"3", "0", "0">>],
      [value_list_key |-> <<"V", "L", "3", "2">>, value_id |-> <<"4">>],
      [value_list_key |-> <<"V", "L", "3", "2">>, value_id |-> <<"5">>],
      [value_list_key |-> <<"V", "L", "4", "5", "3">>, value_id |-> <<"1", "3", "3">>] }

\* the error of a query the database could not answer, and the error of a
\* query on a table that does not exist
QueryError == [code |-> <<"5", "0", "0">>]
UndefinedTable == [code |-> <<"4", "2", "P", "0", "1">>]

\* what the query of loadIncidentAttributesGeneric can answer
GenericReplies ==
    {[error |-> None, data |-> [rows |-> rows]] : rows \in SeqsUpTo(AttributeRows, MaxRows)}
    \cup {[error |-> None, data |-> None],
          [error |-> UndefinedTable, data |-> None],
          [error |-> QueryError, data |-> None]}

\* a row of incident_eccairs_mappings
Wide(class, phase, category) ==
    [occurrence_class |-> class, phase_of_flight |-> phase,
     aircraft_category |-> category]

\* what the query of loadIncidentMappingsWide can answer
WideReplies ==
    { [error |-> QueryError, data |-> None],
      [error |-> None, data |-> None],
      [error |-> None, data |-> Wide(S(<<"1", "0", "0">>), None, None)],
      [error |-> None, data |-> Wide(S(<<"9", "9", "9">>), S(<<"3">>), S(<<"4">>))],
      [error |-> None, data |-> Wide(None, None, S(<<"7", "7">>))] }

\* what the query of loadIntegrationSettings can answer
IntegrationReplies ==
    { [error |-> QueryError, data |-> None],
      [error |-> None, data |-> None],
      [error |-> None, data |-> [responsible_entity_id |-> N(5)]],
      [error |-> None, data |-> [responsible_entity_id |-> None]] }

\* the modes a caller passes, None when it passes none
Modes == {None, S("create"), S("edit"), S("update"), S("delete")}

\* the export rows a caller passes
\* the export row of a draft the registry has stored
StoredDraft == [e2_id |-> S(<<"OR-0000000000073873">>), e2_version |-> S(<<"1.0.0.0">>)]
ExportRows == {None, [e2_id |-> None, e2_version |-> None], StoredDraft}

(***************************************************************************)
(* buildSelections                                                         *)
(***************************************************************************)
\* a selection that takes the default format whatever the row declares
RowSelection_DefaultFormat(r) ==
    [ code |-> toAttributeCode(r.attribute_code).str,
      taxonomy_code |-> Or(ensureString(r.taxonomy_code), S(Taxonomy24)).str,
      format |-> value_list_int_array,
      valueId |-> ensureString(r.value_id),
      text |-> ensureString(r.text_value),
      raw |-> OrNull(r.payload_json),
      entity_path |-> IF r.entity_path = S(<<>>) THEN None ELSE r.entity_path ]

\* the selection made of a row of incident_eccairs_attributes
RowSelection(r) ==
    [ code |-> toAttributeCode(r.attribute_code).str,
      taxonomy_code |-> Or(ensureString(r.taxonomy_code), S(Taxonomy24)).str,
      format |-> Or(ensureString(r.format), S(value_list_int_array)).str,
      valueId |-> ensureString(r.value_id),
      text |-> ensureString(r.text_value),
      raw |-> OrNull(r.payload_json),
      entity_path |-> IF r.entity_path = S(<<>>) THEN None ELSE r.entity_path ]

GenericSelections(rows) ==
    LET coded == SelectSeq(rows, LAMBDA r : toAttributeCode(r.attribute_code) # None)
    IN  [i \in DOMAIN coded |-> RowSelection(coded[i])]

\* a selection of the legacy fallback
LegacySelection(code, path, format, valueId) ==
    [ code |-> code, taxonomy_code |-> Taxonomy24, format |-> format,
      valueId |-> S(valueId), text |-> None, raw |-> None, entity_path |-> path ]

validOccurrenceClasses == <<100, 200, 300, 301, 302, 400, 500, 501, 502>>

\* an occurrence class taken as stored whenever it is a number
occurrenceClass_Unclamped(w) ==
    LET n == Number(w.occurrence_class)
    IN  IF n # NaN THEN n.num ELSE 300

occurrenceClass(w) ==
    LET n == Number(w.occurrence_class)
    IN  IF n \in {N(k) : k \in Range(validOccurrenceClasses)} THEN n.num ELSE 300

responsibleEntity(integration) ==
    IF integration = None \/ integration.responsible_entity_id \in {None, N(0)}
    THEN 133
    ELSE integration.responsible_entity_id.num

LegacySelections(w, integration) ==
    << LegacySelection(<<"4", "3", "1">>, None, value_list_int_array,
                       String(occurrenceClass(w))),
       LegacySelection(<<"4", "5", "3">>, None, value_list_int_array,
                       String(responsibleEntity(integration))) >>
    \o (IF w.phase_of_flight \in {None, S(<<>>)} THEN <<>>
        ELSE <<LegacySelection(<<"1", "0", "7", "2">>, None, content_object_array,
                               w.phase_of_flight.str)>>)
    \o (IF w.aircraft_category \in {None, S(<<>>)} THEN <<>>
        ELSE <<LegacySelection(<<"3", "2">>, S(<<"4">>), value_list_int_array,
                               w.aircraft_category.str)>>)

(***************************************************************************)
(* validateValueListSelections                                             *)
(***************************************************************************)
\* the key of a code and a value id in the set of valid pairs
ValidKey(vlKey, valueId) == vlKey \o <<":">> \o valueId

VlKey(code) == <<"V", "L">> \o code

\* a grouping that makes one entry for every candidate
RECURSIVE groupByCode_PerCandidate(_, _)
groupByCode_PerCandidate(candidates, acc) ==
    IF candidates = <<>> THEN acc
    ELSE LET c == Head(candidates)
         IN  groupByCode_PerCandidate(Tail(candidates),
                Append(acc, [code |-> c.code, values |-> {c.valueId}]))

\* byCode: one entry per code, in the order the codes first occur, with the
\* value ids asked for that code
RECURSIVE groupByCode(_, _)
groupByCode(candidates, acc) ==
    IF candidates = <<>> THEN acc
    ELSE LET c == Head(candidates)
             at == {i \in DOMAIN acc : acc[i].code = c.code}
         IN  groupByCode(Tail(candidates),
                IF at = {}
                THEN Append(acc, [code |-> c.code, values |-> {c.valueId}])
                ELSE [i \in DOMAIN acc |->
                        IF i \in at
                        THEN [acc[i] EXCEPT !.values = @ \cup {c.valueId}]
                        ELSE acc[i]])

\* a catalog query that returns every row of the key
CatalogRows_AllOfKey(vlKey, values) ==
    {row \in Catalog : row.value_list_key = vlKey}

\* the rows the catalog has for a key and a set of value ids
CatalogRows(vlKey, values) ==
    {row \in Catalog : row.value_list_key = vlKey /\ row.value_id \in values}

\* what one catalog query can answer
CatalogReplies(vlKey, values) ==
    { [error |-> None, data |-> [rows |-> CatalogRows(vlKey, values)]],
      [error |-> QueryError, data |-> None] }

\* a query whose error is taken for an answer without rows
QueryResult_Swallow(reply) ==
    [threw |-> FALSE,
     keys |-> {ValidKey(row.value_list_key, row.value_id) :
                  row \in Or(reply.data, [rows |-> {}]).rows}]

\* the outcome of one catalog query: if (error) throw error, else the key
\* of every row of data || [] is added to the valid set
QueryResult(reply) ==
    IF reply.error # None
    THEN [threw |-> TRUE, error |-> reply.error]
    ELSE [threw |-> FALSE,
          keys |-> {ValidKey(row.value_list_key, row.value_id) :
                       row \in Or(reply.data, [rows |-> {}]).rows}]

(***************************************************************************)
(* buildE2Payload                                                          *)
(***************************************************************************)
\* (ensureString(s.taxonomy_code) || "24") === "24"
InTaxonomy(s) == Or(ensureString(S(s.taxonomy_code)), S(Taxonomy24)) = S(Taxonomy24)

filtered(selections) == SelectSeq(selections, InTaxonomy)

\* candidates taken from the selections of every format
valueListCandidates_AllFormats(selections) ==
    LET cands == SelectSeq(filtered(selections), LAMBDA s : s.valueId # None)
    IN  [i \in DOMAIN cands |-> [code |-> cands[i].code, valueId |-> cands[i].valueId.str]]

valueListCandidates(selections) ==
    LET cands == SelectSeq(filtered(selections),
                     LAMBDA s : s.format = value_list_int_array /\ s.valueId # None)
    IN  [i \in DOMAIN cands |-> [code |-> cands[i].code, valueId |-> cands[i].valueId.str]]

NotFound == <<"Not found in eccairs.value_list_items">>

NoValue(format) == <<"No value for format=">> \o format

\* a lookup that finds every key
InValidSet_Always(valid, key) == TRUE

\* validSet.has(key)
InValidSet(valid, key) == key \in valid

\* {}
EmptyObject == [k \in {} |-> None]

\* topLevelAttrs[code] = v
PutAttr(attrs, code, v) == (code :> v) @@ attrs

\* an assignment that starts a new attribute object for the path every time
PutEntityAttr_Overwrite(entityAttrs, path, code, v) ==
    (path :> PutAttr(EmptyObject, code, v)) @@ entityAttrs

\* if (!entityAttrs[path]) entityAttrs[path] = {}; entityAttrs[path][code] = v
PutEntityAttr(entityAttrs, path, code, v) ==
    LET old == IF path \in DOMAIN entityAttrs THEN entityAttrs[path] ELSE EmptyObject
    IN  (path :> PutAttr(old, code, v)) @@ entityAttrs

\* a placement that writes the value of a selection with an entity path to
\* the top level as well
Place_AlsoTopLevel(acc, sel, v) ==
    IF v = None
    THEN [acc EXCEPT !.rejected =
             Append(@, [attribute_code |-> sel.code, reason |-> NoValue(sel.format)])]
    ELSE IF sel.entity_path # None
    THEN [acc EXCEPT !.entityAttrs = PutEntityAttr(@, sel.entity_path.str, sel.code, v),
                     !.topLevelAttrs = PutAttr(@, sel.code, v)]
    ELSE [acc EXCEPT !.topLevelAttrs = PutAttr(@, sel.code, v)]

\* the end of one turn of the loop, v being the converted value
Place(acc, sel, v) ==
    IF v = None
    THEN [acc EXCEPT !.rejected =
             Append(@, [attribute_code |-> sel.code, reason |-> NoValue(sel.format)])]
    ELSE IF sel.entity_path # None
    THEN [acc EXCEPT !.entityAttrs = PutEntityAttr(@, sel.entity_path.str, sel.code, v)]
    ELSE [acc EXCEPT !.topLevelAttrs = PutAttr(@, sel.code, v)]

\* a loop that looks every selection up in the catalog, whatever its format
LoopStep_ValidateAll(acc, sel, valid) ==
    IF sel.valueId = None THEN acc
    ELSE IF ~InValidSet(valid, ValidKey(VlKey(sel.code), sel.valueId.str))
    THEN [acc EXCEPT !.rejected =
             Append(@, [attribute_code |-> sel.code, value_id |-> sel.valueId,
                        reason |-> NotFound])]
    ELSE Place(acc, sel, selectionToE2Value(sel))

\* one turn of the loop over the filtered selections
LoopStep(acc, sel, valid) ==
    IF sel.format = value_list_int_array /\ sel.valueId = None THEN acc
    ELSE IF /\ sel.format = value_list_int_array
            /\ ~InValidSet(valid, ValidKey(VlKey(sel.code), sel.valueId.str))
    THEN [acc EXCEPT !.rejected =
             Append(@, [attribute_code |-> sel.code, value_id |-> sel.valueId,
                        reason |-> NotFound])]
    ELSE Place(acc, sel, selectionToE2Value(sel))

RECURSIVE Loop(_, _, _)
Loop(sels, acc, valid) ==
    IF sels = <<>> THEN acc
    ELSE Loop(Tail(sels), LoopStep(acc, Head(sels), valid), valid)

\* "ID00000000000000000000000000000001"
FixedId == <<"I", "D">> \o Zeros(31) \o <<"1">>

\* a block that carries the fixed identifier in every mode
BlockId_Always(edit) == [ID |-> FixedId]

\* the identifier field of the taxonomy block: none in edit mode
BlockId(edit) == IF edit THEN EmptyObject ELSE [ID |-> FixedId]

\* the ENTITIES of the taxonomy block, set only when there is an entity
\* path: one list of one entity for each path
Entities(entityAttrs) ==
    IF DOMAIN entityAttrs = {} THEN EmptyObject
    ELSE [ENTITIES |->
            [p \in {q \in DOMAIN entityAttrs : DOMAIN entityAttrs[q] # {}} |->
                << [ID |-> generateEntityId(p), ATTRIBUTES |-> entityAttrs[p]] >>]]

RECURSIVE Sum(_, _)
Sum(f, keys) ==
    IF keys = {} THEN 0
    ELSE LET k == CHOOSE x \in keys : TRUE IN f[k] + Sum(f, keys \ {k})

usedCount(acc) ==
    Cardinality(DOMAIN acc.topLevelAttrs)
    + Sum([p \in DOMAIN acc.entityAttrs |-> Cardinality(DOMAIN acc.entityAttrs[p])],
          DOMAIN acc.entityAttrs)

\* a reader that never finds the identifier of the export row
e2_id_Missing(exportRow) == None

e2_id(exportRow) == IF exportRow = None THEN None ELSE exportRow.e2_id

e2_version(exportRow) == IF exportRow = None THEN None ELSE exportRow.e2_version

\* the taxonomy block, the document and the meta made of what the loop
\* has collected
Document(acc, effectiveMode, edit, ld, a) ==
    LET block == BlockId(edit)
                 @@ [ATTRIBUTES |-> acc.topLevelAttrs]
                 @@ Entities(acc.entityAttrs)
        payload == IF edit
                   THEN [e2Id |-> e2_id(a.exportRow), versionType |-> "DRAFT",
                         taxonomyCodes |-> [tax24 |-> block]]
                   ELSE [type |-> "REPORT", status |-> "DRAFT",
                         taxonomyCodes |-> [tax24 |-> block]]
        meta == [mode |-> effectiveMode,
                 versionType |-> IF effectiveMode = "edit" THEN S("DRAFT") ELSE None,
                 source |-> ld.source,
                 usedCount |-> usedCount(acc),
                 selectionsCount |-> Len(ld.selections),
                 rejected |-> acc.rejected,
                 topLevelAttributes |-> acc.topLevelAttrs,
                 entityAttributes |-> acc.entityAttrs,
                 e2Id |-> e2_id(a.exportRow),
                 e2Version |-> e2_version(a.exportRow)]
    IN  IF edit /\ e2_id(a.exportRow) = None
        THEN [kind |-> "thrown",
              error |-> [message |-> "e2_id is required for edit mode"]]
        ELSE [kind |-> "returned", payload |-> payload, meta |-> meta]

effectiveMode(mode) == Or(mode, S("create")).str

\* the part of buildE2Payload after the last await: the loop over the
\* filtered selections and the assembly of the document and the meta
Assemble(ld, valid, a) ==
    Document(Loop(filtered(ld.selections),
                  [rejected |-> <<>>, topLevelAttrs |-> EmptyObject,
                   entityAttrs |-> EmptyObject], valid),
             effectiveMode(a.mode),
             effectiveMode(a.mode) \in {"edit", "update"},
             ld, a)

(***************************************************************************)
(* The run of buildE2Payload, one step for each answer it awaits.          *)
(***************************************************************************)
\* the body of the request the update handler sends for the document of an
\* edit: {e2Id: exportRow.e2_id, version: exportRow.e2_version, ...payload}
editRequestBody(exportRow, payload) ==
    payload @@ [e2Id |-> exportRow.e2_id, version |-> exportRow.e2_version]

\* an error leaves buildE2Payload as an exception
Throw(err) ==
    /\ bpc' = "thrown"
    /\ outcome' = [kind |-> "thrown", error |-> err]

\* buildE2Payload ends with out
End(out) == bpc' = out.kind /\ outcome' = out

\* buildSelections has returned ld: the candidates are grouped by code and
\* the first catalog query is issued; without candidates the run goes on to
\* its end
AfterLoad(ld) ==
    LET groups == groupByCode(valueListCandidates(ld.selections), <<>>)
    IN  /\ loaded' = ld
        /\ byCode' = groups
        /\ validSet' = {}
        /\ IF groups = <<>>
           THEN End(Assemble(ld, {}, buildArgs))
           ELSE bpc' = "validating" /\ UNCHANGED outcome

\* buildE2Payload is called and sends the query of the generic rows
buildE2PayloadCall(mode, exportRow) ==
    /\ bpc = "idle"
    /\ bpc' = "loadGeneric"
    /\ buildArgs' = [mode |-> mode, exportRow |-> exportRow]
    /\ UNCHANGED <<wide, loaded, byCode, validSet, queries, outcome, store,
                   outcomes, tokenVars>>

\* buildE2Payload is called once more for the same incident with the same
\* arguments; the variables of a call are its locals, so the new call starts
\* with fresh ones
buildE2PayloadAgain ==
    /\ bpc \in {"returned", "thrown"}
    /\ Len(outcomes) + 1 < MaxBuilds
    /\ outcomes' = Append(outcomes, outcome)
    /\ bpc' = "loadGeneric"
    /\ wide' = None
    /\ loaded' = None
    /\ byCode' = <<>>
    /\ validSet' = {}
    /\ queries' = <<>>
    /\ outcome' = None
    /\ UNCHANGED <<buildArgs, store, tokenVars>>

\* the answer to loadIncidentAttributesGeneric; the tables of the incident
\* do not change between two runs, so a later run reads what an earlier
\* run has read
GenericReply(reply) ==
    /\ bpc = "loadGeneric"
    /\ store.generic \in {None, reply}
    /\ store' = [store EXCEPT !.generic = reply]
    /\ IF reply.error # None /\ reply.error.code # UndefinedTable.code
       THEN Throw(reply.error) /\ UNCHANGED <<loaded, byCode, validSet>>
       ELSE LET generic == IF reply.error # None THEN None
                           ELSE Or(reply.data, [rows |-> <<>>])
            IN  IF generic # None /\ Len(generic.rows) > 0
                THEN AfterLoad([source |-> "incident_eccairs_attributes",
                                selections |-> GenericSelections(generic.rows)])
                ELSE /\ bpc' = "loadWide"
                     /\ UNCHANGED <<loaded, byCode, validSet, outcome>>
    /\ UNCHANGED <<buildArgs, wide, queries, outcomes, tokenVars>>

\* the answer to loadIncidentMappingsWide
WideReply(reply) ==
    /\ bpc = "loadWide"
    /\ store.wide \in {None, reply}
    /\ store' = [store EXCEPT !.wide = reply]
    /\ IF reply.error # None
       THEN Throw(reply.error) /\ UNCHANGED <<wide, loaded, byCode, validSet>>
       ELSE IF reply.data = None
       THEN AfterLoad([source |-> "none", selections |-> <<>>]) /\ UNCHANGED wide
       ELSE /\ bpc' = "loadIntegration"
            /\ wide' = reply.data
            /\ UNCHANGED <<loaded, byCode, validSet, outcome>>
    /\ UNCHANGED <<buildArgs, queries, outcomes, tokenVars>>

\* the answer to loadIntegrationSettings
IntegrationReply(reply) ==
    /\ bpc = "loadIntegration"
    /\ store.integration \in {None, reply}
    /\ store' = [store EXCEPT !.integration = reply]
    /\ IF reply.error # None
       THEN Throw(reply.error) /\ UNCHANGED <<loaded, byCode, validSet>>
       ELSE AfterLoad([source |-> "incident_eccairs_mappings",
                       selections |-> LegacySelections(wide, reply.data)])
    /\ UNCHANGED <<buildArgs, wide, queries, outcomes, tokenVars>>

\* the answer to the catalog query of the first code still to validate
CatalogReply(reply) ==
    /\ bpc = "validating"
    /\ LET q == Head(byCode)
           res == QueryResult(reply)
       IN  /\ queries' = Append(queries, [value_list_key |-> VlKey(q.code),
                                          value_ids |-> q.values,
                                          failed |-> reply.error # None])
           /\ IF res.threw
              THEN Throw(res.error) /\ UNCHANGED <<byCode, validSet>>
              ELSE /\ validSet' = validSet \cup res.keys
                   /\ byCode' = Tail(byCode)
                   /\ IF Tail(byCode) = <<>>
                      THEN End(Assemble(loaded, validSet \cup res.keys, buildArgs))
                      ELSE UNCHANGED <<bpc, outcome>>
    /\ UNCHANGED <<buildArgs, wide, loaded, store, outcomes, tokenVars>>

\* the answer to the pending catalog query
CatalogNext ==
    /\ bpc = "validating"
    /\ \E reply \in CatalogReplies(VlKey(Head(byCode).code), Head(byCode).values) :
          CatalogReply(reply)

\* the answers a run of buildE2Payload waits for
AnswerNext ==
    \/ bpc = "loadGeneric" /\ \E reply \in GenericReplies : GenericReply(reply)
    \/ bpc = "loadWide" /\ \E reply \in WideReplies : WideReply(reply)
    \/ bpc = "loadIntegration" /\
          \E reply \in IntegrationReplies : IntegrationReply(reply)
    \/ CatalogNext

PayNext ==
    \/ \E m \in Modes, row \in ExportRows : buildE2PayloadCall(m, row)
    \/ AnswerNext

SpecPayload == Init /\ [][PayNext]_vars

\* the compiler run for an incident with a single row or with two rows of
\* entity paths, in create mode and in edit mode for a stored draft
RowNext ==
    \/ buildE2PayloadCall(S("create"), None)
    \/ buildE2PayloadCall(S("edit"), StoredDraft)
    \/ bpc = "loadGeneric" /\
          \E rows \in InputLists :
             GenericReply([error |-> None, data |-> [rows |-> rows]])
    \/ CatalogNext

SpecRow == Init /\ [][RowNext]_vars

\* the compiler run again for the same incident, as the create handler and
\* the update handler call it for a stored draft
RebuildNext ==
    \/ \E m \in {S("create"), S("edit")} :
          buildE2PayloadCall(m, StoredDraft)
    \/ AnswerNext
    \/ buildE2PayloadAgain

SpecRebuild == Init /\ [][RebuildNext]_vars

(***************************************************************************)
(* Properties of the payload compiler.                                     *)
(***************************************************************************)
\* the selections the run has loaded
Sels == IF loaded = None THEN <<>> ELSE loaded.selections

\* the taxonomy block of the document the run returned
Block == outcome.payload.taxonomyCodes.tax24

\* the catalog has a row for the code and the value id
CatalogHas(code, valueId) ==
    \E row \in Catalog : row.value_list_key = VlKey(code) /\ row.value_id = valueId

IsValueList(sel) == sel.format = value_list_int_array

\* a value-list selection of the compiled taxonomy whose pair has no row
NotInCatalog(sel) ==
    /\ InTaxonomy(sel) /\ IsValueList(sel) /\ sel.valueId # None
    /\ ~CatalogHas(sel.code, sel.valueId.str)

\* a selection that passes every test of the compiler
Survives(sel) ==
    /\ InTaxonomy(sel)
    /\ IsValueList(sel) => (sel.valueId # None /\ CatalogHas(sel.code, sel.valueId.str))
    /\ selectionToE2Value(sel) # None

\* the attributes map of the document at the place of a selection: the
\* top-level map, or the map of the entity of its path
MapOf(sel) ==
    IF sel.entity_path = None THEN Block.ATTRIBUTES
    ELSE IF "ENTITIES" \in DOMAIN Block /\ sel.entity_path.str \in DOMAIN Block.ENTITIES
    THEN Block.ENTITIES[sel.entity_path.str][1].ATTRIBUTES
    ELSE EmptyObject

\* the rejection records that cite catalog absence
CatalogRejections ==
    {k \in DOMAIN outcome.meta.rejected : outcome.meta.rejected[k].reason = NotFound}

\* C7, as stated: when a document is returned, every value-list selection
\* whose (code, valueId) pair has no catalog row has a rejection record
\* citing catalog absence, and its code is absent from the attributes map
\* of the document
C7_CodeAbsentFromAttributes ==
    bpc = "returned" =>
       \A i \in DOMAIN Sels :
          NotInCatalog(Sels[i]) =>
             /\ \E k \in CatalogRejections :
                   outcome.meta.rejected[k].attribute_code = Sels[i].code
             /\ Sels[i].code \notin DOMAIN MapOf(Sels[i])

\* C7, amended: when a document is returned, every value-list selection
\* whose (code, valueId) pair has no catalog row has its own rejection
\* record citing catalog absence and contributes no value: if its code is
\* in the attributes map, the value there is the converted value of another
\* selection of the same code and path that passes every test
C7_RejectedPairContributesNothing ==
    bpc = "returned" =>
       /\ Cardinality(CatalogRejections)
            = Cardinality({i \in DOMAIN Sels : NotInCatalog(Sels[i])})
       /\ \A i \in DOMAIN Sels :
             NotInCatalog(Sels[i]) =>
                /\ \E k \in CatalogRejections :
                      outcome.meta.rejected[k] =
                         [attribute_code |-> Sels[i].code,
                          value_id |-> Sels[i].valueId, reason |-> NotFound]
                /\ Sels[i].code \in DOMAIN MapOf(Sels[i]) =>
                      \E j \in DOMAIN Sels :
                         /\ j # i /\ Survives(Sels[j])
                         /\ Sels[j].code = Sels[i].code
                         /\ Sels[j].entity_path = Sels[i].entity_path
                         /\ MapOf(Sels[i])[Sels[i].code] = selectionToE2Value(Sels[j])

\* witness of C7: a document was returned for an incident with a value-list
\* selection of an entity path whose pair is not in the catalog; the
\* rejection is recorded and the entity of the path has no such code
C7_Witness ==
    /\ bpc = "returned"
    /\ \E i \in DOMAIN Sels :
          /\ NotInCatalog(Sels[i]) /\ Sels[i].entity_path # None
          /\ CatalogRejections # {}
          /\ Sels[i].code \notin DOMAIN MapOf(Sels[i])

\* a catalog query has failed
CatalogFailed == \E k \in DOMAIN queries : queries[k].failed

\* C8, as stated: when a catalog query fails, buildE2Payload returns
\* diagnostics and no document
C8_ReturnsDiagnosticsOnly ==
    CatalogFailed =>
       /\ outcome # None /\ outcome.kind = "returned"
       /\ "meta" \in DOMAIN outcome
       /\ "payload" \notin DOMAIN outcome

\* C8, amended: when a catalog query fails, the run ends at that query by
\* throwing the error of the catalog: the caller gets neither a document
\* nor diagnostics, no later query is issued, the failed code and the codes
\* after it stay unvalidated and nothing is converted or assembled
C8_CatalogFailureAborts ==
    \A k \in DOMAIN queries :
       queries[k].failed =>
          /\ k = Len(queries)
          /\ bpc = "thrown"
          /\ outcome = [kind |-> "thrown", error |-> QueryError]
          /\ byCode # <<>> /\ VlKey(Head(byCode).code) = queries[k].value_list_key
          /\ Len(byCode) + k - 1 = Len(groupByCode(valueListCandidates(Sels), <<>>))

\* witness of C8: the second catalog query of a run failed after the first
\* one had found a row
C8_Witness ==
    /\ Len(queries) = 2 /\ ~queries[1].failed /\ queries[2].failed
    /\ validSet # {}
    /\ bpc = "thrown"

\* C9: when a document is returned, every loaded selection that does not
\* pass the tests of the compiler has a rejection record naming its code,
\* and the record of a selection of another taxonomy has the reason
\* "wrong taxonomy"
C9_EveryDropRecorded ==
    bpc = "returned" =>
       \A i \in DOMAIN Sels :
          ~Survives(Sels[i]) =>
             \E k \in DOMAIN outcome.meta.rejected :
                /\ outcome.meta.rejected[k].attribute_code = Sels[i].code
                /\ ~InTaxonomy(Sels[i]) =>
                      outcome.meta.rejected[k].reason = <<"wrong taxonomy">>

\* the selections with an entity path that pass every test
EntitySurvivors == {i \in DOMAIN Sels : Survives(Sels[i]) /\ Sels[i].entity_path # None}

\* the last of the surviving selections of a path and a code
LastOf(path, code) ==
    LET same == {i \in EntitySurvivors :
                    Sels[i].entity_path.str = path /\ Sels[i].code = code}
    IN  CHOOSE i \in same : \A j \in same : j <= i

\* C10: when a document is returned, its entities are exactly the entity
\* paths of the surviving selections; the list of a path has one entity,
\* and the attributes of that entity are the codes of all surviving
\* selections of the path, each with the converted value of the last
\* surviving selection of that path and code
C10_OneEntityPerPath ==
    bpc = "returned" =>
       LET paths == {Sels[i].entity_path.str : i \in EntitySurvivors}
       IN  IF paths = {}
           THEN "ENTITIES" \notin DOMAIN Block
           ELSE /\ "ENTITIES" \in DOMAIN Block
                /\ DOMAIN Block.ENTITIES = paths
                /\ \A p \in paths :
                      LET codes == {Sels[i].code :
                                      i \in {j \in EntitySurvivors :
                                               Sels[j].entity_path.str = p}}
                      IN  /\ Len(Block.ENTITIES[p]) = 1
                          /\ DOMAIN Block.ENTITIES[p][1].ATTRIBUTES = codes
                          /\ \A c \in codes :
                                Block.ENTITIES[p][1].ATTRIBUTES[c]
                                   = selectionToE2Value(Sels[LastOf(p, c)])

\* witness of C10: a returned document has an entity that holds the
\* attributes of two selections of its path
C10_Witness ==
    /\ bpc = "returned"
    /\ "ENTITIES" \in DOMAIN Block
    /\ \E p \in DOMAIN Block.ENTITIES :
          /\ Len(Block.ENTITIES[p]) = 1
          /\ Cardinality(DOMAIN Block.ENTITIES[p][1].ATTRIBUTES) = 2

\* the selections without an entity path that pass every test
TopLevelSurvivors ==
    {i \in DOMAIN Sels : Survives(Sels[i]) /\ Sels[i].entity_path = None}

\* the attributes of the entity of a path in the returned document, the
\* empty object when the document has no entity of that path
EntityAttributes(path) ==
    IF "ENTITIES" \in DOMAIN Block /\ path \in DOMAIN Block.ENTITIES
    THEN Block.ENTITIES[path][1].ATTRIBUTES
    ELSE EmptyObject

\* C11: when a document is returned, a surviving selection with an entity
\* path is placed inside the entity of that path and nowhere else, and one
\* without an entity path at the top level and nowhere else: the top-level
\* attributes are exactly the codes of the surviving selections without a
\* path, each with the value of the last of them, and the attributes of the
\* entity of a path are exactly the codes of the surviving selections of
\* that path
C11_PlacedByEntityPath ==
    bpc = "returned" =>
       /\ DOMAIN Block.ATTRIBUTES = {Sels[i].code : i \in TopLevelSurvivors}
       /\ \A i \in TopLevelSurvivors :
             \E j \in TopLevelSurvivors :
                /\ j >= i /\ Sels[j].code = Sels[i].code
                /\ Block.ATTRIBUTES[Sels[i].code] = selectionToE2Value(Sels[j])
       /\ \A i \in EntitySurvivors :
             /\ Sels[i].code \in DOMAIN EntityAttributes(Sels[i].entity_path.str)
             /\ \E j \in EntitySurvivors :
                   /\ j >= i /\ Sels[j].code = Sels[i].code
                   /\ Sels[j].entity_path = Sels[i].entity_path
                   /\ EntityAttributes(Sels[i].entity_path.str)[Sels[i].code]
                        = selectionToE2Value(Sels[j])
       /\ "ENTITIES" \in DOMAIN Block =>
             \A p \in DOMAIN Block.ENTITIES :
                DOMAIN EntityAttributes(p) \subseteq
                   {Sels[i].code : i \in {j \in EntitySurvivors :
                                             Sels[j].entity_path.str = p}}

\* witness of C11: the selection of code 32, entity path 4 and value id 5,
\* a pair of the catalog, is compiled to the entity of path 4 with the
\* attributes {"32": [5]}, and the top level has no key 32
C11_Witness ==
    /\ bpc = "returned"
    /\ \E i \in DOMAIN Sels :
          Sels[i] = [code |-> <<"3", "2">>, taxonomy_code |-> Taxonomy24,
                     format |-> value_list_int_array, valueId |-> S(<<"5">>),
                     text |-> None, raw |-> None, entity_path |-> S(<<"4">>)]
    /\ "ENTITIES" \in DOMAIN Block
    /\ Block.ENTITIES[<<"4">>] =
          << [ID |-> generateEntityId(<<"4">>),
              ATTRIBUTES |-> (<<"3", "2">> :> IntArray(N(5)))] >>
    /\ <<"3", "2">> \notin DOMAIN Block.ATTRIBUTES

LaterAtSamePlace(i) ==
    {j \in DOMAIN Sels :
        /\ j > i /\ Survives(Sels[j])
        /\ Sels[j].code = Sels[i].code
        /\ Sels[j].entity_path = Sels[i].entity_path}

\* C13: when a document is returned, every raw_json selection of the
\* compiled taxonomy that has a raw value is compiled whether or not the
\* catalog knows its code: no rejection record is made for it, its code is
\* a key of the attributes at its place, and the value there is its raw
\* value as stored, unless a later surviving selection of the same place
\* and code has replaced it
C13_RawJsonPassesUnchanged ==
    bpc = "returned" =>
       \A i \in DOMAIN Sels :
          (InTaxonomy(Sels[i]) /\ Sels[i].format = raw_json /\ Sels[i].raw # None) =>
             /\ Sels[i].code \in DOMAIN MapOf(Sels[i])
             /\ LaterAtSamePlace(i) = {} => MapOf(Sels[i])[Sels[i].code] = Sels[i].raw
             /\ \A k \in DOMAIN outcome.meta.rejected :
                   outcome.meta.rejected[k].attribute_code = Sels[i].code =>
                      \E j \in DOMAIN Sels :
                         /\ j # i /\ Sels[j].code = Sels[i].code
                         /\ ~Survives(Sels[j])

\* witness of C13: the raw value stored for code 1087, a code without a
\* catalog row, is the top-level attribute 1087 of a returned document
C13_Witness ==
    /\ bpc = "returned"
    /\ \E i \in DOMAIN Sels :
          /\ Sels[i].format = raw_json /\ Sels[i].code = <<"1", "0", "8", "7">>
          /\ Sels[i].raw = Json("override")
    /\ \A row \in Catalog : row.value_list_key # VlKey(<<"1", "0", "8", "7">>)
    /\ <<"1", "0", "8", "7">> \in DOMAIN Block.ATTRIBUTES
    /\ Block.ATTRIBUTES[<<"1", "0", "8", "7">>] = Json("override")

\* the run has returned a document compiled from the legacy wide row
LegacyReturned ==
    /\ bpc = "returned" /\ wide # None
    /\ loaded.source = "incident_eccairs_mappings"

Code431 == <<"4", "3", "1">>

IntegerOf(valueId) ==
    IF valueId = None THEN None
    ELSE LET t == trim(valueId.str)
             points == {k \in DOMAIN t : t[k] = "."}
             digits == SelectSeq(t, LAMBDA ch : ch # ".")
             after == IF points = {} THEN <<>>
                      ELSE SubSeq(t, (CHOOSE k \in points : TRUE) + 1, Len(t))
             before == SubSeq(t, 1, Len(t) - Len(after) - Cardinality(points))
         IN  IF /\ Cardinality(points) <= 1 /\ IsDigits(digits)
                /\ \A k \in DOMAIN after : after[k] = "0"
             THEN N(DecimalValue(before))
             ELSE None

\* C15: when a document is returned, a content_object_array selection of
\* the compiled taxonomy whose value id parses to an integer n has the
\* attribute value [{content: [n]}], and one whose value id does not parse
\* to an integer converts to null and leaves no attribute
C15_ContentOnlyForIntegers ==
    bpc = "returned" =>
       \A i \in DOMAIN Sels :
          (InTaxonomy(Sels[i]) /\ Sels[i].format = content_object_array
             /\ LaterAtSamePlace(i) = {}) =>
             IF IntegerOf(Sels[i].valueId) # None
             THEN /\ Sels[i].code \in DOMAIN MapOf(Sels[i])
                  /\ MapOf(Sels[i])[Sels[i].code] =
                        ContentArray(IntegerOf(Sels[i].valueId))
             ELSE Sels[i].code \notin DOMAIN MapOf(Sels[i])

\* the conversion of C15 on the value ids that are integers or no numbers
\* at all: [{content: [n]}] for an integer, null otherwise
C15_IntegerOrNull ==
    bpc = "returned" =>
       \A i \in DOMAIN Sels :
          (InTaxonomy(Sels[i]) /\ Sels[i].format = content_object_array
             /\ LaterAtSamePlace(i) = {}
             /\ (IntegerOf(Sels[i].valueId) # None \/ Number(Sels[i].valueId) = NaN
                   \/ Sels[i].valueId = None)) =>
             IF IntegerOf(Sels[i].valueId) # None
             THEN /\ Sels[i].code \in DOMAIN MapOf(Sels[i])
                  /\ MapOf(Sels[i])[Sels[i].code] =
                        ContentArray(IntegerOf(Sels[i].valueId))
             ELSE Sels[i].code \notin DOMAIN MapOf(Sels[i])

\* the scenario of C15: the content selection of code 1072 and value id 10
\* is compiled to the top-level attribute 1072 = [{content: [10]}]
C15_Scenario ==
    /\ bpc = "returned"
    /\ Len(Sels) = 1 /\ Sels[1].format = content_object_array
    /\ Sels[1].code = <<"1", "0", "7", "2">> /\ Sels[1].valueId = S(<<"1", "0">>)
    /\ Block.ATTRIBUTES[<<"1", "0", "7", "2">>] = ContentArray(N(10))

\* the case that contradicts C15: a value id that is a number but no
\* integer is compiled to a content array holding that number
C15_NonIntegerContent ==
    /\ bpc = "returned"
    /\ Len(Sels) = 1 /\ Sels[1].format = content_object_array
    /\ Sels[1].valueId = S(<<"1", ".", "1">>)
    /\ Block.ATTRIBUTES[<<"1", "0", "7", "2">>] = ContentArray(Decimal(1, <<"1">>))

\* the rows the run has read from incident_eccairs_attributes
GenericRows ==
    IF store.generic = None \/ store.generic.data = None THEN <<>>
    ELSE store.generic.data.rows

\* the longest run of digits at the end of a string
RECURSIVE DigitSuffix(_)
DigitSuffix(t) ==
    IF t = <<>> \/ t[Len(t)] \notin Digits THEN <<>>
    ELSE Append(DigitSuffix(SubSeq(t, 1, Len(t) - 1)), t[Len(t)])

\* the code a stored attribute code stands for, the blanks around it set
\* aside: the digits of <digits> or of "VL"<digits> in any letter case,
\* None for every other input
CodeOf(stored) ==
    IF stored = None THEN None
    ELSE LET t == trim(stored.str)
             digits == DigitSuffix(t)
             prefix == SubSeq(t, 1, Len(t) - Len(digits))
         IN  IF digits # <<>>
                /\ prefix \in {<<>>} \cup {<<v, l>> : v \in {"V", "v"}, l \in {"L", "l"}}
             THEN S(digits)
             ELSE None

\* C16: a stored attribute code of the form <digits> or "VL"<digits>, in
\* any letter case and with blanks around it, is mapped to the bare digit
\* string, and every other input (null, empty, not numeric, not VL<digits>)
\* to no code; the row of an input without a code gives no selection, is
\* never sent to the catalog and never compiled
C16_CodeOrNoSelection ==
    (loaded # None /\ Len(GenericRows) = 1) =>
       LET code == CodeOf(GenericRows[1].attribute_code)
       IN  /\ toAttributeCode(GenericRows[1].attribute_code) = code
           /\ IF code # None
              THEN Len(Sels) = 1 /\ Sels[1].code = code.str
              ELSE /\ Sels = <<>> /\ queries = <<>> /\ byCode = <<>>
                   /\ bpc = "returned"
                   /\ Block.ATTRIBUTES = EmptyObject
                   /\ "ENTITIES" \notin DOMAIN Block
                   /\ outcome.meta.rejected = <<>>
                   /\ outcome.meta.usedCount = 0

\* witness of C16: the stored code "Vl32" has become the selection of code
\* 32 and is compiled into the entity of its path
C16_Witness ==
    /\ bpc = "returned" /\ Len(GenericRows) = 1
    /\ GenericRows[1].attribute_code = S(<<"V", "l", "3", "2">>)
    /\ Len(Sels) = 1 /\ Sels[1].code = <<"3", "2">>
    /\ <<"3", "2">> \in DOMAIN EntityAttributes(<<"4">>)

\* the other case of C16: the stored code "3a" gives no selection and an
\* empty document
C16_NoCode ==
    /\ bpc = "returned" /\ Len(GenericRows) = 1
    /\ GenericRows[1].attribute_code = S(<<"3", "a">>)
    /\ Sels = <<>> /\ Block.ATTRIBUTES = EmptyObject

\* the run was made in edit mode
EditRun == buildArgs.mode \in {S("edit"), S("update")}

\* C17: the taxonomy block of a document compiled in create mode carries
\* the fixed identifier "ID" followed by 31 zeros and a 1; the block of a
\* document compiled in edit mode has no identifier field at all, the
\* document carries the externally issued identifier of the export row
\* instead, and the request the update handler makes of it carries that
\* identifier and the version of the record
C17_IdentifierByMode ==
    bpc = "returned" =>
       IF EditRun
       THEN /\ "ID" \notin DOMAIN Block
            /\ buildArgs.exportRow # None /\ buildArgs.exportRow.e2_id # None
            /\ outcome.payload.e2Id = buildArgs.exportRow.e2_id
            /\ LET request == editRequestBody(buildArgs.exportRow, outcome.payload)
               IN  /\ request.e2Id = buildArgs.exportRow.e2_id
                   /\ request.version = buildArgs.exportRow.e2_version
                   /\ request.taxonomyCodes.tax24 = Block
       ELSE /\ "ID" \in DOMAIN Block
            /\ Len(Block.ID) = 34
            /\ Block.ID = <<"I", "D">> \o [i \in 1..31 |-> "0"] \o <<"1">>
            /\ "e2Id" \notin DOMAIN outcome.payload

\* witness of C17: a document with attributes compiled in edit mode for a
\* stored draft
C17_Witness ==
    /\ bpc = "returned" /\ buildArgs.mode = S("edit")
    /\ buildArgs.exportRow = StoredDraft
    /\ DOMAIN Block.ATTRIBUTES # {}
    /\ "ID" \notin DOMAIN Block
    /\ editRequestBody(buildArgs.exportRow, outcome.payload).version = S(<<"1.0.0.0">>)

\* the other case of C17: a document with attributes compiled in create
\* mode carries the fixed identifier
C17_CreateCarriesFixedId ==
    /\ bpc = "returned" /\ buildArgs.mode = S("create")
    /\ DOMAIN Block.ATTRIBUTES # {}
    /\ Block.ID = FixedId

\* the value-list selections of the compiled taxonomy that have a value id
ValueListSels ==
    {i \in DOMAIN Sels :
        InTaxonomy(Sels[i]) /\ IsValueList(Sels[i]) /\ Sels[i].valueId # None}

\* C18: only value_list_int_array selections reach the validator and can
\* be rejected for catalog absence: every catalog query asks for the key
\* of a value-list selection and for the value ids of the value-list
\* selections of that code and no others, every rejection record citing
\* catalog absence is that of a value-list selection, and a selection of
\* another format (free text, raw override, date, time, string, content)
\* that converts to a value is compiled whatever the catalog holds
C18_OnlyValueListsValidated ==
    /\ \A k \in DOMAIN queries :
          LET asked == {i \in ValueListSels :
                           VlKey(Sels[i].code) = queries[k].value_list_key}
          IN  /\ asked # {}
              /\ queries[k].value_ids = {Sels[i].valueId.str : i \in asked}
    /\ bpc = "returned" =>
          /\ \A k \in CatalogRejections :
                \E i \in ValueListSels :
                   /\ outcome.meta.rejected[k].attribute_code = Sels[i].code
                   /\ outcome.meta.rejected[k].value_id = Sels[i].valueId
                   /\ ~CatalogHas(Sels[i].code, Sels[i].valueId.str)
          /\ \A i \in DOMAIN Sels :
                (InTaxonomy(Sels[i]) /\ ~IsValueList(Sels[i])
                   /\ selectionToE2Value(Sels[i]) # None) =>
                   Sels[i].code \in DOMAIN MapOf(Sels[i])

\* witness of C18: a document was returned for a free-text selection of
\* code 390 and a value-list selection whose pair the catalog does not
\* have; the catalog was asked about the value list only, the value-list
\* selection is rejected and the text is compiled
C18_Witness ==
    /\ bpc = "returned"
    /\ Len(queries) = 1 /\ queries[1].value_list_key # VlKey(<<"3", "9", "0">>)
    /\ Cardinality(CatalogRejections) = 1
    /\ \E i \in DOMAIN Sels :
          /\ Sels[i].format = text_content_array
          /\ Sels[i].code = <<"3", "9", "0">>
          /\ \A row \in Catalog : row.value_list_key # VlKey(Sels[i].code)
          /\ Sels[i].code \in DOMAIN MapOf(Sels[i])

\* the (code, value id) pairs handed to the validator
RequestedPairs == {<<Sels[i].code, Sels[i].valueId.str>> : i \in ValueListSels}

\* the requested pairs whose code the validator has asked the catalog about
AnsweredPairs ==
    {p \in RequestedPairs : \A j \in DOMAIN byCode : byCode[j].code # p[1]}

\* C19: the set of valid pairs holds exactly the keys "VL<code>:<valueId>"
\* of the requested pairs the catalog has a row for, with value_list_key =
\* "VL" + code and value_id equal to the value id as a string: after every
\* answered query for the codes asked so far, and for all requested pairs
\* when the validator returns
C19_ExactlyTheCatalogPairs ==
    loaded # None =>
       validSet = {<<"V", "L">> \o p[1] \o <<":">> \o p[2] :
                      p \in {q \in AnsweredPairs :
                                \E row \in Catalog :
                                   /\ row.value_list_key = <<"V", "L">> \o q[1]
                                   /\ row.value_id = q[2]}}

\* witness of C19: the validator has returned for the requested pairs
\* (32, 5) and (32, 77); the catalog has rows for VL32:4 and VL32:5, and
\* the set of valid pairs is {"VL32:5"}
C19_Witness ==
    /\ bpc = "returned" /\ byCode = <<>>
    /\ RequestedPairs = {<<(<<"3", "2">>), (<<"5">>)>>, <<(<<"3", "2">>), (<<"7", "7">>)>>}
    /\ CatalogHas(<<"3", "2">>, <<"4">>)
    /\ validSet = {<<"V", "L", "3", "2", ":", "5">>}

\* the rows of GenericRows that have an attribute code
CodedRows == SelectSeq(GenericRows, LAMBDA r : CodeOf(r.attribute_code) # None)

\* the generic table has answered without rows: no data, an empty list, or
\* the error 42P01 of a table that does not exist
NoGenericRows ==
    /\ store.generic # None
    /\ \/ store.generic.error # None /\ store.generic.error.code = <<"4", "2", "P", "0", "1">>
       \/ store.generic.error = None /\ GenericRows = <<>>

\* the codes of the legacy mapping
LegacyCodes == {<<"4", "3", "1">>, <<"4", "5", "3">>, <<"1", "0", "7", "2">>, <<"3", "2">>}

\* C20: buildSelections takes the generic rows whenever there is at least
\* one, with the source "incident_eccairs_attributes" and without reading
\* the legacy tables: every row with an attribute code becomes one
\* selection, in order, with its declared format or value_list_int_array
\* when the format is blank.  Only when there are no rows, or the table is
\* missing (42P01), it reads the wide row: the source is "none" without
\* selections when there is no wide row, and "incident_eccairs_mappings"
\* with the selections of the legacy codes otherwise.  Any other error of
\* the store is thrown, and generic and legacy selections are never mixed
C20_GenericElseLegacy ==
    /\ (store.generic # None /\ store.generic.error = None /\ GenericRows # <<>>) =>
          /\ loaded # None /\ loaded.source = "incident_eccairs_attributes"
          /\ store.wide = None /\ store.integration = None /\ wide = None
          /\ Len(Sels) = Len(CodedRows)
          /\ \A i \in DOMAIN Sels :
                /\ Sels[i].code = CodeOf(CodedRows[i].attribute_code).str
                /\ Sels[i].format =
                      IF CodedRows[i].format = None \/ trim(CodedRows[i].format.str) = <<>>
                      THEN value_list_int_array
                      ELSE trim(CodedRows[i].format.str)
                /\ Sels[i].entity_path = CodedRows[i].entity_path
    /\ (NoGenericRows /\ loaded # None) =>
          /\ store.wide # None /\ store.wide.error = None
          /\ IF store.wide.data = None
             THEN /\ loaded = [source |-> "none", selections |-> <<>>]
                  /\ store.integration = None
             ELSE /\ loaded.source = "incident_eccairs_mappings"
                  /\ store.integration # None /\ store.integration.error = None
                  /\ Len(Sels) >= 2
                  /\ \A i \in DOMAIN Sels : Sels[i].code \in LegacyCodes
    /\ (loaded # None /\ loaded.source # "incident_eccairs_attributes") => NoGenericRows
    /\ \A reply \in {store.generic, store.wide, store.integration} \ {None} :
          (reply.error # None /\ ~(reply = store.generic /\ NoGenericRows)) =>
             /\ bpc = "thrown" /\ outcome = [kind |-> "thrown", error |-> reply.error]
             /\ loaded = None

\* witness of C20: the generic table is missing (42P01), so the legacy wide
\* row was read and compiled with the source "incident_eccairs_mappings"
C20_Witness ==
    /\ bpc = "returned"
    /\ store.generic.error = UndefinedTable
    /\ store.wide.data # None
    /\ loaded.source = "incident_eccairs_mappings"
    /\ outcome.meta.source = "incident_eccairs_mappings"
    /\ Code431 \in DOMAIN Block.ATTRIBUTES

\* the other cases of C20: generic rows with a blank format were compiled
\* from the generic source alone, and a run without a wide row has the
\* source "none"
C20_GenericWithDefaultFormat ==
    /\ bpc = "returned" /\ loaded.source = "incident_eccairs_attributes"
    /\ Len(GenericRows) = 2 /\ Len(Sels) = 1
    /\ GenericRows[1].format = None /\ Sels[1].format = value_list_int_array

C20_SourceNone ==
    /\ bpc = "returned" /\ loaded.source = "none"
    /\ store.generic.data = [rows |-> <<>>] \/ store.generic.data = None

\* the store has answered a query of buildSelections with an error that
\* buildSelections does not take for "no rows"
LoadError ==
    \/ store.generic # None /\ store.generic.error \notin {None, UndefinedTable}
    \/ store.wide # None /\ store.wide.error # None
    \/ store.integration # None /\ store.integration.error # None

\* the run is an edit for an export row without the identifier of the draft
EditWithoutId ==
    /\ buildArgs # None /\ EditRun
    /\ buildArgs.exportRow = None \/ buildArgs.exportRow.e2_id = None

\* the catalog has answered every query the loaded selections need
ValidationDone ==
    /\ loaded # None /\ byCode = <<>>
    /\ Len(queries) = Len(groupByCode(valueListCandidates(Sels), <<>>))
    /\ ~CatalogFailed

\* C22, as stated: a compilation ends without a document only by the
\* transition from VALIDATING on a catalog failure
C22_AbortOnlyOnCatalogFailure ==
    bpc = "thrown" => (CatalogFailed /\ loaded # None)

\* C22, amended: the phases come in the order loading, validating,
\* converting and assembling, and a compilation ends without a document in
\* exactly three cases: a store error while loading (before any selection
\* is loaded), a catalog failure while validating, and an edit for an
\* export row without e2_id, found after validation and conversion; no
\* defect of a selection ends it
C22_ThreeWaysToAbort ==
    /\ bpc \in {"idle", "loadGeneric", "loadWide", "loadIntegration"} =>
          loaded = None /\ queries = <<>> /\ outcome = None
    /\ bpc = "validating" =>
          loaded # None /\ byCode # <<>> /\ outcome = None /\ ~CatalogFailed
    /\ bpc = "returned" => ValidationDone /\ ~LoadError /\ ~EditWithoutId
    /\ bpc = "thrown" =>
          \/ LoadError /\ loaded = None /\ queries = <<>>
          \/ CatalogFailed /\ loaded # None /\ ~LoadError
          \/ /\ EditWithoutId /\ ValidationDone /\ ~LoadError
             /\ outcome.error = [message |-> "e2_id is required for edit mode"]
    /\ (ValidationDone /\ ~EditWithoutId) => bpc = "returned"

\* witness of C22: an edit without e2_id has ended by throwing after the
\* catalog had answered its query and a selection had been found valid
C22_Witness ==
    /\ bpc = "thrown" /\ EditWithoutId
    /\ Len(queries) = 1 /\ ~CatalogFailed /\ validSet # {}

\* the other cases of C22: a run ended by a store error while loading, and
\* a document returned although a selection was rejected
C22_AbortedWhileLoading ==
    /\ bpc = "thrown" /\ store.wide # None /\ store.wide.error = QueryError
    /\ loaded = None

C22_DefectDoesNotAbort ==
    /\ bpc = "returned" /\ Len(outcome.meta.rejected) = 2

\* the number a value id stands for, None when it stands for none: the
\* blanks around it set aside, digits with at most one point among them
NumberOf(valueId) ==
    IF valueId = None THEN None
    ELSE LET t == trim(valueId.str)
             points == {k \in DOMAIN t : t[k] = "."}
             at == IF points = {} THEN Len(t) + 1 ELSE CHOOSE k \in points : TRUE
             before == SubSeq(t, 1, at - 1)
             after == dropZeros(SubSeq(t, at + 1, Len(t)))
         IN  IF Cardinality(points) <= 1 /\ IsDigits(SelectSeq(t, LAMBDA ch : ch # "."))
             THEN IF after = <<>> THEN N(DecimalValue(before))
                  ELSE Decimal(DecimalValue(before), after)
             ELSE None

\* the value the fallback gives a selection of a format outside the
\* enumeration: raw if present, else [n], else null
FallbackValue(sel) ==
    IF sel.raw # None THEN sel.raw
    ELSE IF NumberOf(sel.valueId) # None THEN IntArray(NumberOf(sel.valueId))
    ELSE None

\* C23: the conversion gives a value or null for every selection and every
\* format and never throws: a run whose catalog queries are answered
\* returns a document, in which the selection is either compiled or has a
\* rejection record.  A selection of a format outside the enumeration is
\* compiled to its raw value when it has one, otherwise to [n] when its
\* value id parses to a number n, and otherwise it converts to null and is
\* rejected with a reason citing its format
C23_TotalWithFallback ==
    /\ (bpc = "thrown" /\ Len(GenericRows) = 1) => CatalogFailed
    /\ (bpc = "returned" /\ Len(Sels) = 1) =>
          LET sel == Sels[1]
          IN  /\ \/ sel.code \in DOMAIN MapOf(sel) /\ outcome.meta.rejected = <<>>
                 \/ sel.code \notin DOMAIN MapOf(sel) /\ Len(outcome.meta.rejected) = 1
                 \/ /\ IsValueList(sel) /\ sel.valueId = None
                    /\ sel.code \notin DOMAIN MapOf(sel) /\ outcome.meta.rejected = <<>>
              /\ sel.format \notin Formats =>
                    IF FallbackValue(sel) # None
                    THEN /\ sel.code \in DOMAIN MapOf(sel)
                         /\ MapOf(sel)[sel.code] = FallbackValue(sel)
                    ELSE /\ sel.code \notin DOMAIN MapOf(sel)
                         /\ outcome.meta.rejected =
                               <<[attribute_code |-> sel.code,
                                  reason |-> <<"No value for format=">> \o sel.format]>>

\* witness of C23: a selection of a format outside the enumeration with a
\* raw value and a numeric value id is compiled to its raw value
C23_Witness ==
    /\ bpc = "returned" /\ Len(Sels) = 1
    /\ Sels[1].format = <<"other_format">>
    /\ Sels[1].raw = Json("override") /\ Sels[1].valueId = S(<<"5">>)
    /\ Block.ATTRIBUTES[Sels[1].code] = Json("override")

\* the other cases of C23: a selection of an unknown format without raw is
\* compiled to [n] of its value id, and one without raw and number is
\* rejected with the reason citing the format
C23_FallbackToValueId ==
    /\ bpc = "returned" /\ Len(Sels) = 1
    /\ Sels[1].format = <<"other_format">>
    /\ Sels[1].raw = None /\ Sels[1].valueId = S(<<"1", "0">>)
    /\ Block.ATTRIBUTES[Sels[1].code] = IntArray(N(10))

C23_FallbackToNull ==
    /\ bpc = "returned" /\ Len(Sels) = 1
    /\ Sels[1].format = <<"other_format">>
    /\ Sels[1].raw = None /\ Sels[1].valueId = S(<<"a">>)
    /\ outcome.meta.rejected =
          <<[attribute_code |-> Sels[1].code,
             reason |-> <<"No value for format=", "other_format">>]>>

\* a raw value as an array: an array as it is, anything else as the one
\* element of a new array
AsArray(raw) == IF raw = ArrayJson THEN raw ELSE [array |-> <<raw>>]

\* the run has returned for a single selection of the format object_array
ObjectArrayReturned ==
    /\ bpc = "returned" /\ Len(Sels) = 1
    /\ Sels[1].format = <<"object_array">>

\* C24: a selection of the object-array format with a raw value is compiled
\* to raw as an array (an array unchanged, a single object as the one
\* element of an array), and one without a raw value to [n] of its value
\* id, or converts to null when the value id is not numeric
C24_RawAsArray ==
    ObjectArrayReturned =>
       LET sel == Sels[1]
       IN  IF sel.raw # None
           THEN /\ sel.code \in DOMAIN MapOf(sel)
                /\ MapOf(sel)[sel.code] = AsArray(sel.raw)
           ELSE IF NumberOf(sel.valueId) # None
           THEN /\ sel.code \in DOMAIN MapOf(sel)
                /\ MapOf(sel)[sel.code] = IntArray(NumberOf(sel.valueId))
           ELSE sel.code \notin DOMAIN MapOf(sel)

\* C24 on the selections whose raw value is absent or an array
C24_ExceptSingleObject ==
    (ObjectArrayReturned /\ Sels[1].raw \in {None, ArrayJson}) =>
       LET sel == Sels[1]
       IN  IF sel.raw # None
           THEN /\ sel.code \in DOMAIN MapOf(sel)
                /\ MapOf(sel)[sel.code] = sel.raw
           ELSE IF NumberOf(sel.valueId) # None
           THEN /\ sel.code \in DOMAIN MapOf(sel)
                /\ MapOf(sel)[sel.code] = IntArray(NumberOf(sel.valueId))
           ELSE sel.code \notin DOMAIN MapOf(sel)

\* the case that contradicts C24: the single object stored for a selection
\* of the object-array format is the attribute value itself, not an array
C24_SingleObjectNotWrapped ==
    /\ ObjectArrayReturned
    /\ Sels[1].raw = ObjectJson
    /\ Block.ATTRIBUTES[Sels[1].code] = ObjectJson

\* the distinct attribute codes among the candidate pairs
CandidateCodes == {Sels[i].code : i \in ValueListSels}

\* C25: in one validation no two catalog queries ask for the same code,
\* every query batches all value ids requested for its code, and when the
\* validator returns the number of queries is the number of distinct codes
\* among the candidate pairs, however many selections or repeated pairs
\* there are
C25_OneQueryPerCode ==
    /\ \A j, k \in DOMAIN queries :
          queries[j].value_list_key = queries[k].value_list_key => j = k
    /\ \A k \in DOMAIN queries :
          /\ \E c \in CandidateCodes : queries[k].value_list_key = <<"V", "L">> \o c
          /\ queries[k].value_ids =
                {Sels[i].valueId.str :
                    i \in {j \in ValueListSels :
                              <<"V", "L">> \o Sels[j].code = queries[k].value_list_key}}
    /\ Len(queries) <= Cardinality(CandidateCodes)
    /\ (loaded # None /\ byCode = <<>> /\ ~CatalogFailed) =>
          Len(queries) = Cardinality(CandidateCodes)

\* witness of C25: two candidate selections of one code with different
\* value ids were validated with one query for both value ids
C25_Witness ==
    /\ bpc = "returned"
    /\ Cardinality(ValueListSels) = 2 /\ Cardinality(CandidateCodes) = 1
    /\ Cardinality(RequestedPairs) = 2
    /\ Len(queries) = 1 /\ Cardinality(queries[1].value_ids) = 2

\* the other case of C25: the same pair selected twice was validated with
\* one query for one value id
C25_RepeatedPair ==
    /\ bpc = "returned"
    /\ Cardinality(ValueListSels) = 2 /\ Cardinality(RequestedPairs) = 1
    /\ Len(queries) = 1 /\ Cardinality(queries[1].value_ids) = 1

\* the identifier of an entity path of up to 32 characters: "ID", zeros,
\* and the path, 34 characters in all; of a longer path: "ID" and the first
\* 32 characters of the path
ExpectedId(path) ==
    IF Len(path) <= 32
    THEN <<"I", "D">> \o [i \in 1..(32 - Len(path)) |-> "0"] \o path
    ELSE <<"I", "D">> \o SubSeq(path, 1, 32)

C26_CreateSameId ==
    /\ bpc = "returned" /\ buildArgs.mode = S("create")
    /\ "ENTITIES" \in DOMAIN Block
    /\ <<"0", "4">> \in DOMAIN Block.ENTITIES
    /\ Block.ENTITIES[<<"0", "4">>][1].ID =
          <<"I", "D">> \o [i \in 1..30 |-> "0"] \o <<"0", "4">>

C26_LongPathCut ==
    /\ bpc = "returned" /\ "ENTITIES" \in DOMAIN Block
    /\ LongPath(<<"1">>) \in DOMAIN Block.ENTITIES
    /\ Block.ENTITIES[LongPath(<<"1">>)][1].ID = <<"I", "D">> \o LongPath(<<>>)

\* C30: within one returned document two different entity paths never have
\* the same entity identifier
C30_DistinctPathsDistinctIds ==
    (bpc = "returned" /\ "ENTITIES" \in DOMAIN Block) =>
       \A p, q \in DOMAIN Block.ENTITIES :
          p # q => Block.ENTITIES[p][1].ID # Block.ENTITIES[q][1].ID

\* a path of at most 32 characters that does not begin with a zero
Canonical(path) == Len(path) <= 32 /\ path[1] # "0"

\* C30 on the paths of at most 32 characters without leading zeros: two
\* different such paths of a document have different identifiers
C30_DistinctCanonicalPaths ==
    (bpc = "returned" /\ "ENTITIES" \in DOMAIN Block) =>
       \A p, q \in DOMAIN Block.ENTITIES :
          (p # q /\ Canonical(p) /\ Canonical(q)) =>
             Block.ENTITIES[p][1].ID # Block.ENTITIES[q][1].ID

\* the cases that contradict C30: the entities of the paths "4" and "04" of
\* one document have the same identifier, and so have the entities of two
\* paths of 33 characters that differ in the last one
C30_LeadingZeroCollision ==
    /\ bpc = "returned" /\ "ENTITIES" \in DOMAIN Block
    /\ DOMAIN Block.ENTITIES = {<<"4">>, <<"0", "4">>}
    /\ Block.ENTITIES[<<"4">>][1].ID = Block.ENTITIES[<<"0", "4">>][1].ID

C30_LongPathCollision ==
    /\ bpc = "returned" /\ "ENTITIES" \in DOMAIN Block
    /\ DOMAIN Block.ENTITIES = {LongPath(<<"1">>), LongPath(<<"2">>)}
    /\ Block.ENTITIES[LongPath(<<"1">>)][1].ID = Block.ENTITIES[LongPath(<<"2">>)][1].ID


(***************************************************************************)
(* Properties of the access-token manager, continued.                      *)
(***************************************************************************)
\* C28: whenever getE2AccessToken returns normally, the value it returns is
\* an access token (not undefined) and the cache entry of the call's key
\* holds that token with a finite expiry; an accepted-status answer without
\* access_token or without expires_in is neither cached nor returned.
C28_ReturnsUsableToken ==
    \A p \in Procs :
       LET c == calls[p]
           k == cacheKey(c.integration)
       IN  (c.pc = "done" /\ c.op = "getToken" /\ c.result.kind = "returned") =>
              /\ c.result.value # None
              /\ tokenCache[k] # None
              /\ tokenCache[k].token = c.result.value
              /\ ~tokenCache[k].expiresAt.nan

\* the case of C28 that fails: an answer of status 200 whose JSON body has no
\* access_token was accepted, and undefined was returned and cached
C28_UndefinedReturned ==
    \E p \in Procs :
       LET c == calls[p]
           k == cacheKey(c.integration)
       IN  /\ c.pc = "done" /\ c.op = "getToken" /\ c.result.kind = "returned"
           /\ c.result.value = None /\ c.reqs >= 1
           /\ tokenCache[k] # None /\ tokenCache[k].token = None

\* the other case: an answer without expires_in left an entry whose expiry
\* is NaN
C28_ExpiryNotFinite ==
    \E p \in Procs :
       LET c == calls[p]
           k == cacheKey(c.integration)
       IN  /\ c.pc = "done" /\ c.op = "getToken" /\ c.result.kind = "returned"
           /\ c.result.value # None
           /\ tokenCache[k] # None /\ tokenCache[k].expiresAt.nan


\* the call obtained its token from the identity provider itself, with a
\* request made at its own effective endpoint with its own effective client
Requested(c) == c.reqs >= 1 /\ Returned(c) # None

\* the call was handed its token from the cache
FromCache(c) == c.look # None /\ c.look.hit /\ Returned(c) # None

\* C27: a token handed to a call of getE2AccessToken(integration) was issued
\* at that call's effective base endpoint for that call's effective client:
\* a token one call obtained from the identity provider is never handed from
\* the cache to a call whose effective endpoint or client differs.
C27_TokenOfOwnCredentials ==
    \A p, q \in Procs :
       (Requested(calls[p]) /\ FromCache(calls[q])
           /\ Returned(calls[q]) = Returned(calls[p])) =>
          Effective(calls[q].integration, env) = Effective(calls[p].integration, env)

\* the case of C27 that fails: the token issued to the sandbox client of
\* company c1 at the sandbox endpoint is handed to the call made with the
\* prod integration of the same company
C27_SandboxTokenForProd ==
    \E p, q \in Procs :
       /\ Requested(calls[p]) /\ FromCache(calls[q])
       /\ Returned(calls[q]) = Returned(calls[p])
       /\ calls[p].integration # None /\ calls[q].integration # None
       /\ calls[p].integration.company_id = calls[q].integration.company_id
       /\ calls[p].integration.e2_base_url = S("sandboxUrl")
       /\ calls[q].integration.e2_base_url = S("prodUrl")


(***************************************************************************)
(* Properties of the handlers that call the registry.                      *)
(***************************************************************************)
\* the handler answered 400 from one of the checks it makes before it
\* touches the export row
Refused(c) == c.result # None /\ c.result.kind = "response" /\ c.result.status = 400

\* a completed request of a handler that had set the export row to "pending"
Completed(c) == c.op \in HandlerOps /\ c.pc = "done" /\ ~Refused(c)

\* C21: in the create, edit and submit handlers a non-success answer of the
\* registry is not retried, whatever its status: the request made exactly
\* one registry call; and when the handler answers, the export row has status
\* "failed" with last_error set and the registry's response stored, and the
\* caller is answered the registry's status with the error.
C21_FailureRecordedNotRetried ==
    \A p \in Procs :
       LET c == calls[p]
       IN  (Completed(c) /\ c.fetches # <<>> /\ ~IsOk(c.fetches[1])) =>
              /\ Len(c.fetches) = 1
              /\ exportStatus[p].status = "failed"
              /\ exportStatus[p].last_error = errMsg(c.op, c.fetches[1])
              /\ exportStatus[p].response = ParsedBody(c.fetches[1])
              /\ c.result.status = c.fetches[1]
              /\ c.result.error # None

\* witness of C21: the submit handler got 401 from the registry, made no
\* second call, stored "failed" and answered 401
C21_Witness ==
    \E p \in Procs :
       LET c == calls[p]
       IN  /\ Completed(c) /\ c.op = "submit"
           /\ c.fetches = <<401>>
           /\ exportStatus[p].status = "failed"
           /\ exportStatus[p].last_error # None
           /\ c.result.status = 401

\* the same for a draft: create answered 500 by the registry
C21_CreateFailed ==
    \E p \in Procs :
       LET c == calls[p]
       IN  /\ Completed(c) /\ c.op = "create"
           /\ c.fetches = <<500>>
           /\ exportStatus[p].status = "failed"
           /\ exportStatus[p].response = ParsedBody(500)


\* C29: when a create, edit or submit request that set the export row to
\* "pending" completes, the row has a final status: "draft_created",
\* "draft_updated", "submitted" or "failed"; also when the compilation of the
\* payload or the acquisition of the token failed.
C29_PendingAlwaysResolved ==
    \A p \in Procs :
       Completed(calls[p]) =>
          exportStatus[p].status \in {"draft_created", "draft_updated",
                                      "submitted", "failed"}

\* what does hold: the row has a final status when the request completes
\* after an answer of the registry, whatever that answer was
C29_ResolvedAfterRegistryAnswer ==
    \A p \in Procs :
       (Completed(calls[p]) /\ calls[p].fetches # <<>>) =>
          exportStatus[p].status = RowStatus(calls[p].op, calls[p].fetches[1])

\* the case of C29 that fails: every token attempt of a submit request was
\* refused, the handler answered 500 and the row is still "pending"
C29_PendingAfterTokenFailure ==
    \E p \in Procs :
       LET c == calls[p]
       IN  /\ Completed(c) /\ c.op = "submit"
           /\ Len(c.errors) = Len(attempts) /\ c.fetches = <<>>
           /\ c.result.status = 500
           /\ exportStatus[p].status = "pending"

\* the other case: buildE2Payload threw in an edit request
C29_PendingAfterBuildFailure ==
    \E p \in Procs :
       LET c == calls[p]
       IN  /\ Completed(c) /\ c.op = "edit"
           /\ c.errors = <<>> /\ c.fetches = <<>>
           /\ c.result.status = 500
           /\ exportStatus[p].status = "pending"

=============================================================================
